---------------------------- MODULE Spec2Model ----------------------------
(***************************************************************************)
(* Model of the vehicle-fitment resolver and the Cashea financing          *)
(* calculator of namwoo_app/services/product_service.py, together with the *)
(* parser wrapper of services/ai_service.py and the alias table of         *)
(* services/vehicle_aliases.py.                                            *)
(*                                                                         *)
(* Text is a sequence of one-character strings, so that lower(), substring *)
(* tests, word boundaries, LIKE patterns and tokenisation are computed the *)
(* way the code computes them.  An Optional value is <<>> (None) or <<x>>. *)
(***************************************************************************)
EXTENDS Integers, Sequences, FiniteSets, TLC

VARIABLES
    pc,                 \* position of the find_batteries_for_vehicle call
    user_query,         \* its argument
    ai_parsed,          \* Optional reply of the Tier 1 parser call
    found_make,         \* Optional make returned by _find_make_from_query
    best_match,         \* Optional <<make, score>> returned by extractOne
    remaining_query,    \* the query with the make and its aliases removed
    re_parsed,          \* Optional reply of the fallback (second) parser call
    parsed_vehicle,     \* the vehicle data carried into Stage 1
    candidate_fitments, \* fitment ids returned by the Stage 1 query, in order
    final_fitments,     \* fitment ids after Stage 2
    result,             \* the dictionary the call returned
    parser_calls,       \* the parser calls of the current call: text and reply
    repo_calls,         \* the repository queries the call issued, in order
    battery_links,      \* fitment id -> set of linked battery ids (the junction table)
    makes_cache,        \* _vehicle_makes_cache: [data, timestamp]
    now,                \* time.time(), in seconds
    financing_rules,    \* rows of the financing_rules table, in insertion order
    fin_result,         \* what the last financing call returned
    fin_call,           \* the last financing call: its name and arguments
    make_text,          \* a make and what the make normalizer gave for it, step by step
    scan,               \* a query and the make the alias scan found in it
    stored_batteries,   \* committed rows of the batteries table, by id
    session_batteries,  \* the rows as the Session holds them, flushed or not
    bat_result,         \* what the last battery update call returned
    callers,            \* the concurrent callers of _get_all_makes_cached, step by step
    makes_table,        \* the rows the distinct-makes query returns at present
    cache_origin        \* history: the refresh that wrote the cached list

vars == <<pc, user_query, ai_parsed, found_make, best_match, remaining_query,
          re_parsed, parsed_vehicle, candidate_fitments, final_fitments, result,
          parser_calls, repo_calls, battery_links, makes_cache, now,
          financing_rules, fin_result, fin_call, make_text, scan,
          stored_batteries, session_batteries, bat_result,
          callers, makes_table, cache_origin>>

resolver_vars == <<pc, user_query, ai_parsed, found_make, best_match,
                   remaining_query, re_parsed, parsed_vehicle, candidate_fitments,
                   final_fitments, result, parser_calls, repo_calls>>

financing_vars == <<financing_rules, fin_result, fin_call>>

alias_vars == <<make_text, scan>>

battery_vars == <<stored_batteries, session_batteries, bat_result>>

cache_vars == <<callers, makes_table, cache_origin>>

---------------------------------------------------------------------------
(* Optional values and Python truthiness.                                  *)

None == <<>>

Some(x) == <<x>>

\* the empty dictionary {}
EmptyDict == [k \in {} |-> k]

\* bool(x) of an Optional text: None and "" are falsy
TruthyText(o) == o # None /\ o[1] # <<>>

\* bool(x) of an Optional integer: None and 0 are falsy
TruthyInt(o) == o # None /\ o[1] # 0

---------------------------------------------------------------------------
(* Text.                                                                   *)

\* str.lower() on the letters of the model (the others are unchanged)
LowerCase ==
    ("A" :> "a") @@ ("B" :> "b") @@ ("C" :> "c") @@ ("D" :> "d") @@ ("E" :> "e") @@
    ("F" :> "f") @@ ("G" :> "g") @@ ("H" :> "h") @@ ("I" :> "i") @@ ("J" :> "j") @@
    ("K" :> "k") @@ ("L" :> "l") @@ ("M" :> "m") @@ ("N" :> "n") @@ ("O" :> "o") @@
    ("P" :> "p") @@ ("Q" :> "q") @@ ("R" :> "r") @@ ("S" :> "s") @@ ("T" :> "t") @@
    ("U" :> "u") @@ ("V" :> "v") @@ ("W" :> "w") @@ ("X" :> "x") @@ ("Y" :> "y") @@
    ("Z" :> "z") @@ ("Ë" :> "ë")

UpperLetters == DOMAIN LowerCase

LowerLetters ==
    {"a","b","c","d","e","f","g","h","i","j","k","l","m","n","o","p","q",
     "r","s","t","u","v","w","x","y","z","ë"}

Digits == {"0","1","2","3","4","5","6","7","8","9"}

Range(s) == {s[i] : i \in DOMAIN s}

\* str.lower() on one character
LowerChar(c) == IF c \in UpperLetters THEN LowerCase[c] ELSE c

\* str.lower()
Lower(s) == [i \in 1..Len(s) |-> LowerChar(s[i])]

\* \w of the regular expressions: letters, digits and the underscore
IsWordChar(c) ==
    c \in UpperLetters \/ c \in LowerLetters \/ c \in Digits \/ c = "_"

\* \s
IsSpace(c) == c = " "

\* needle occurs in hay starting at position i
OccursAt(hay, needle, i) ==
    /\ i >= 1
    /\ i + Len(needle) - 1 <= Len(hay)
    /\ \A k \in 1..Len(needle) : hay[i + k - 1] = needle[k]

\* Python's  needle in hay  on strings: a substring test
Contains(hay, needle) ==
    \E i \in 1..(Len(hay) - Len(needle) + 1) : OccursAt(hay, needle, i)

\* \b (Python re) and \y (PostgreSQL): position i, between s[i-1] and s[i],
\* has a word character on exactly one side
WordBoundary(s, i) ==
    LET w(k) == k \in 1..Len(s) /\ IsWordChar(s[k])
    IN  w(i - 1) # w(i)

\* a case-insensitive match of the literal term at position i, between word
\* boundaries: \b term \b with re.IGNORECASE, \y term \y with ~*
WordMatchAt(s, term, i) ==
    /\ i + Len(term) - 1 <= Len(s)
    /\ \A k \in 1..Len(term) : LowerChar(s[i + k - 1]) = LowerChar(term[k])
    /\ WordBoundary(s, i)
    /\ WordBoundary(s, i + Len(term))

\* column ~* '\yterm\y'
WordMatch(s, term) == \E i \in 1..(Len(s) - Len(term) + 1) : WordMatchAt(s, term, i)

RECURSIVE SubFrom(_, _, _)
\* re.sub(r'\b' + re.escape(term) + r'\b', '', s, flags=re.IGNORECASE), scanning
\* from position i: leftmost matches, not overlapping, are removed
SubFrom(s, term, i) ==
    IF i > Len(s) THEN <<>>
    ELSE IF Len(term) > 0 /\ WordMatchAt(s, term, i)
         THEN SubFrom(s, term, i + Len(term))
         ELSE <<s[i]>> \o SubFrom(s, term, i + 1)

RegexRemove(s, term) == SubFrom(s, term, 1)

RECURSIVE LStrip(_)
LStrip(s) == IF s # <<>> /\ IsSpace(Head(s)) THEN LStrip(Tail(s)) ELSE s

RECURSIVE RStrip(_)
RStrip(s) ==
    IF s # <<>> /\ IsSpace(s[Len(s)]) THEN RStrip(SubSeq(s, 1, Len(s) - 1)) ELSE s

\* str.strip()
Strip(s) == RStrip(LStrip(s))

RECURSIVE Runs(_, _, _)
\* the maximal runs of characters of s that are in the set keep, in order;
\* cur is the run being read
Runs(s, keep, cur) ==
    IF s = <<>> THEN (IF cur = <<>> THEN <<>> ELSE <<cur>>)
    ELSE IF Head(s) \in keep THEN Runs(Tail(s), keep, Append(cur, Head(s)))
         ELSE (IF cur = <<>> THEN <<>> ELSE <<cur>>) \o Runs(Tail(s), keep, <<>>)

\* [kw for kw in re.split(r'\s+|-', model) if len(kw) > 1]
ModelKeywords(model) ==
    LET keep == {c \in Range(model) : ~IsSpace(c) /\ c # "-"}
        parts == Runs(model, keep, <<>>)
    IN  SelectSeq(parts, LAMBDA kw : Len(kw) > 1)

\* set(re.findall(r'\w+', text))
WordSet(text) == Range(Runs(text, {c \in Range(text) : IsWordChar(c)}, <<>>))

RECURSIVE JoinWith(_, _)
\* sep.join(parts)
JoinWith(sep, parts) ==
    IF parts = <<>> THEN <<>>
    ELSE IF Len(parts) = 1 THEN parts[1]
         ELSE parts[1] \o sep \o JoinWith(sep, Tail(parts))

RECURSIVE LikeMatch(_, _)
\* SQL  s LIKE p : % matches any run of characters, _ any one character
LikeMatch(s, p) ==
    IF p = <<>> THEN s = <<>>
    ELSE IF Head(p) = "%"
         THEN LikeMatch(s, Tail(p)) \/ (s # <<>> /\ LikeMatch(Tail(s), p))
         ELSE /\ s # <<>>
              /\ (Head(p) = "_" \/ Head(p) = Head(s))
              /\ LikeMatch(Tail(s), Tail(p))

\* column.ilike(pattern): LIKE on the lower-cased operands
ILike(s, pattern) == LikeMatch(Lower(s), Lower(pattern))

---------------------------------------------------------------------------
(* services/vehicle_aliases.py: lowercase alias -> canonical make, in the  *)
(* order of the dictionary.                                                *)

MAKE_ALIASES ==
  <<
    <<<<"a","c","u","r","a">>, <<"A","C","U","R","A">>>>,  \* "acura": "ACURA"
    <<<<"a","l","f","a">>, <<"A","L","F","A"," ","R","O","M","E","O">>>>,  \* "alfa": "ALFA ROMEO"
    <<<<"a","l","f","a"," ","r","o","m","e","o">>, <<"A","L","F","A"," ","R","O","M","E","O">>>>,  \* "alfa romeo": "ALFA ROMEO"
    <<<<"a","u","d","i">>, <<"A","U","D","I">>>>,  \* "audi": "AUDI"
    <<<<"b","a","w">>, <<"B","A","W">>>>,  \* "baw": "BAW"
    <<<<"b","l","u","e">>, <<"B","L","U","E"," ","B","I","R","D">>>>,  \* "blue": "BLUE BIRD"
    <<<<"b","l","u","e","b","i","r","d">>, <<"B","L","U","E"," ","B","I","R","D">>>>,  \* "bluebird": "BLUE BIRD"
    <<<<"b","l","u","e"," ","b","i","r","d">>, <<"B","L","U","E"," ","B","I","R","D">>>>,  \* "blue bird": "BLUE BIRD"
    <<<<"b","m","w">>, <<"B","M","W">>>>,  \* "bmw": "BMW"
    <<<<"b","e","e","m","e","r">>, <<"B","M","W">>>>,  \* "beemer": "BMW"
    <<<<"b","i","m","m","e","r">>, <<"B","M","W">>>>,  \* "bimmer": "BMW"
    <<<<"b","u","i","c","k">>, <<"B","U","I","C","K">>>>,  \* "buick": "BUICK"
    <<<<"b","y","d">>, <<"B","Y","D">>>>,  \* "byd": "BYD"
    <<<<"c","h","a","n","a">>, <<"C","H","A","N","A">>>>,  \* "chana": "CHANA"
    <<<<"c","h","a","n","g","a","n">>, <<"C","H","A","N","G","A","N">>>>,  \* "changan": "CHANGAN"
    <<<<"c","h","a","n","g","h","e">>, <<"C","H","A","N","G","H","E">>>>,  \* "changhe": "CHANGHE"
    <<<<"c","h","e","r","y">>, <<"C","H","E","R","Y">>>>,  \* "chery": "CHERY"
    <<<<"c","h","e","v","r","o","l","e","t">>, <<"C","H","E","V","R","O","L","E","T">>>>,  \* "chevrolet": "CHEVROLET"
    <<<<"c","h","e","v","y">>, <<"C","H","E","V","R","O","L","E","T">>>>,  \* "chevy": "CHEVROLET"
    <<<<"c","h","e","v">>, <<"C","H","E","V","R","O","L","E","T">>>>,  \* "chev": "CHEVROLET"
    <<<<"c","h","e","b","r","o","l","e","t">>, <<"C","H","E","V","R","O","L","E","T">>>>,  \* "chebrolet": "CHEVROLET"
    <<<<"c","h","i","n","o","s">>, <<"C","H","I","N","O","S">>>>,  \* "chinos": "CHINOS"
    <<<<"c","h","r","y","s","l","e","r">>, <<"C","H","R","Y","S","L","E","R">>>>,  \* "chrysler": "CHRYSLER"
    <<<<"c","i","t","r","o","ë","n">>, <<"C","I","T","R","O","Ë","N">>>>,  \* "citroën": "CITROËN"
    <<<<"c","i","t","r","o","e","n">>, <<"C","I","T","R","O","Ë","N">>>>,  \* "citroen": "CITROËN"
    <<<<"d","a","e","w","o","o">>, <<"D","A","E","W","O","O">>>>,  \* "daewoo": "DAEWOO"
    <<<<"d","o","d","g","e">>, <<"D","O","D","G","E">>>>,  \* "dodge": "DODGE"
    <<<<"d","o","n","g","f","e","n","g">>, <<"D","O","N","G","F","E","N","G">>>>,  \* "dongfeng": "DONGFENG"
    <<<<"d","s","f","k">>, <<"D","S","F","K">>>>,  \* "dsfk": "DSFK"
    <<<<"e","n","c","a","n","v","a">>, <<"E","N","C","A","N","V","A">>>>,  \* "encanva": "ENCANVA"
    <<<<"f","i","a","t">>, <<"F","I","A","T">>>>,  \* "fiat": "FIAT"
    <<<<"f","o","r","d">>, <<"F","O","R","D">>>>,  \* "ford": "FORD"
    <<<<"f","o","t","o","n">>, <<"F","O","T","O","N">>>>,  \* "foton": "FOTON"
    <<<<"f","r","e","i","g","h","t","l","i","n","e","r">>, <<"F","R","E","I","G","H","T","L","I","N","E","R">>>>,  \* "freightliner": "FREIGHTLINER"
    <<<<"f","r","i","e","g","h","t","l","i","n","e","r">>, <<"F","R","E","I","G","H","T","L","I","N","E","R">>>>,  \* "frieghtliner": "FREIGHTLINER"
    <<<<"g","r","e","a","t">>, <<"G","R","E","A","T">>>>,  \* "great": "GREAT"
    <<<<"g","r","e","a","t"," ","w","a","l","l">>, <<"G","R","E","A","T">>>>,  \* "great wall": "GREAT"
    <<<<"h","a","f","e","i">>, <<"H","A","F","E","I">>>>,  \* "hafei": "HAFEI"
    <<<<"h","i","n","o">>, <<"H","I","N","O">>>>,  \* "hino": "HINO"
    <<<<"h","o","n","d","a">>, <<"H","O","N","D","A">>>>,  \* "honda": "HONDA"
    <<<<"h","u","m","m","e","r">>, <<"H","U","M","M","E","R">>>>,  \* "hummer": "HUMMER"
    <<<<"h","y","u","n","d","a","i">>, <<"H","Y","U","N","D","A","I">>>>,  \* "hyundai": "HYUNDAI"
    <<<<"h","y","n","d","a","i">>, <<"H","Y","U","N","D","A","I">>>>,  \* "hyndai": "HYUNDAI"
    <<<<"h","u","n","d","a","i">>, <<"H","Y","U","N","D","A","I">>>>,  \* "hundai": "HYUNDAI"
    <<<<"i","k","c","o">>, <<"I","K","C","O">>>>,  \* "ikco": "IKCO"
    <<<<"i","n","t","e","r","n","a","t","i","o","n","a","l">>, <<"I","N","T","E","R","N","A","T","I","O","N","A","L">>>>,  \* "international": "INTERNATIONAL"
    <<<<"i","s","u","z","u">>, <<"I","S","U","Z","U">>>>,  \* "isuzu": "ISUZU"
    <<<<"i","v","e","c","o">>, <<"I","V","E","C","O">>>>,  \* "iveco": "IVECO"
    <<<<"j","a","c">>, <<"J","A","C">>>>,  \* "jac": "JAC"
    <<<<"j","e","e","p">>, <<"J","E","E","P">>>>,  \* "jeep": "JEEP"
    <<<<"j","e","t","o","u","r">>, <<"J","E","T","O","U","R">>>>,  \* "jetour": "JETOUR"
    <<<<"j","m","c">>, <<"J","M","C">>>>,  \* "jmc": "JMC"
    <<<<"k","a","r","r","y">>, <<"K","A","R","R","Y">>>>,  \* "karry": "KARRY"
    <<<<"k","e","n","w","o","r","t","h">>, <<"K","E","N","W","O","R","T","H">>>>,  \* "kenworth": "KENWORTH"
    <<<<"k","i","a">>, <<"K","I","A">>>>,  \* "kia": "KIA"
    <<<<"l","a","d","a">>, <<"L","A","D","A">>>>,  \* "lada": "LADA"
    <<<<"l","a","n","d"," ","r","o","v","e","r">>, <<"L","A","N","D"," ","R","O","V","E","R">>>>,  \* "land rover": "LAND ROVER"
    <<<<"l","a","n","d","r","o","v","e","r">>, <<"L","A","N","D"," ","R","O","V","E","R">>>>,  \* "landrover": "LAND ROVER"
    <<<<"l","a","n","d">>, <<"L","A","N","D"," ","R","O","V","E","R">>>>,  \* "land": "LAND ROVER"
    <<<<"l","e","x","u","s">>, <<"L","E","X","U","S">>>>,  \* "lexus": "LEXUS"
    <<<<"l","i","f","a","n">>, <<"L","I","F","A","N">>>>,  \* "lifan": "LIFAN"
    <<<<"l","i","n","c","o","l","n">>, <<"L","I","N","C","O","L","N">>>>,  \* "lincoln": "LINCOLN"
    <<<<"m","a","c","k">>, <<"M","A","C","K">>>>,  \* "mack": "MACK"
    <<<<"m","a","x","u","s">>, <<"M","A","X","U","S">>>>,  \* "maxus": "MAXUS"
    <<<<"m","a","z","d","a">>, <<"M","A","Z","D","A">>>>,  \* "mazda": "MAZDA"
    <<<<"m","e","r","c","e","d","e","s"," ","b","e","n","z">>, <<"M","E","R","C","E","D","E","S"," ","B","E","N","Z">>>>,  \* "mercedes benz": "MERCEDES BENZ"
    <<<<"m","e","r","c","e","d","e","s">>, <<"M","E","R","C","E","D","E","S"," ","B","E","N","Z">>>>,  \* "mercedes": "MERCEDES BENZ"
    <<<<"b","e","n","z">>, <<"M","E","R","C","E","D","E","S"," ","B","E","N","Z">>>>,  \* "benz": "MERCEDES BENZ"
    <<<<"m","e","r","c","e","d","e","z">>, <<"M","E","R","C","E","D","E","S"," ","B","E","N","Z">>>>,  \* "mercedez": "MERCEDES BENZ"
    <<<<"m","e","r","c">>, <<"M","E","R","C","E","D","E","S"," ","B","E","N","Z">>>>,  \* "merc": "MERCEDES BENZ"
    <<<<"m","b">>, <<"M","E","R","C","E","D","E","S"," ","B","E","N","Z">>>>,  \* "mb": "MERCEDES BENZ"
    <<<<"m","g">>, <<"M","G">>>>,  \* "mg": "MG"
    <<<<"m","i","n","i">>, <<"M","I","N","I">>>>,  \* "mini": "MINI"
    <<<<"m","i","t","s","u","b","i","s","h","i">>, <<"M","I","T","S","U","B","I","S","H","I">>>>,  \* "mitsubishi": "MITSUBISHI"
    <<<<"m","i","t","s","u">>, <<"M","I","T","S","U","B","I","S","H","I">>>>,  \* "mitsu": "MITSUBISHI"
    <<<<"n","i","s","s","a","n">>, <<"N","I","S","S","A","N">>>>,  \* "nissan": "NISSAN"
    <<<<"p","e","u","g","e","o","t">>, <<"P","E","U","G","E","O","T">>>>,  \* "peugeot": "PEUGEOT"
    <<<<"r","a","m">>, <<"R","A","M">>>>,  \* "ram": "RAM"
    <<<<"r","e","l","l","y">>, <<"R","E","L","L","Y">>>>,  \* "relly": "RELLY"
    <<<<"r","e","n","a","u","l","t">>, <<"R","E","N","A","U","L","T">>>>,  \* "renault": "RENAULT"
    <<<<"r","o","v","e","r">>, <<"R","O","V","E","R">>>>,  \* "rover": "ROVER"
    <<<<"s","a","i","c">>, <<"S","A","I","C">>>>,  \* "saic": "SAIC"
    <<<<"s","a","i","p","a">>, <<"S","A","I","P","A">>>>,  \* "saipa": "SAIPA"
    <<<<"s","e","a","t">>, <<"S","E","A","T">>>>,  \* "seat": "SEAT"
    <<<<"s","k","o","d","a">>, <<"S","K","O","D","A">>>>,  \* "skoda": "SKODA"
    <<<<"s","u","b","a","r","u">>, <<"S","U","B","A","R","U">>>>,  \* "subaru": "SUBARU"
    <<<<"s","u","z","u","k","i">>, <<"S","U","Z","U","K","I">>>>,  \* "suzuki": "SUZUKI"
    <<<<"t","o","y","o","t","a">>, <<"T","O","Y","O","T","A">>>>,  \* "toyota": "TOYOTA"
    <<<<"v","e","n","u","c","i","a">>, <<"V","E","N","U","C","I","A">>>>,  \* "venucia": "VENUCIA"
    <<<<"v","o","l","k","s","w","a","g","e","n">>, <<"V","O","L","K","S","W","A","G","E","N">>>>,  \* "volkswagen": "VOLKSWAGEN"
    <<<<"v","w">>, <<"V","O","L","K","S","W","A","G","E","N">>>>,  \* "vw": "VOLKSWAGEN"
    <<<<"v","o","l","k","s">>, <<"V","O","L","K","S","W","A","G","E","N">>>>,  \* "volks": "VOLKSWAGEN"
    <<<<"v","o","l","k","s","w","a","g","o","n">>, <<"V","O","L","K","S","W","A","G","E","N">>>>,  \* "volkswagon": "VOLKSWAGEN"
    <<<<"v","o","l","v","o">>, <<"V","O","L","V","O">>>>,  \* "volvo": "VOLVO"
    <<<<"z","o","t","y","e">>, <<"Z","O","T","Y","E">>>>  \* "zotye": "ZOTYE"
  >>

---------------------------------------------------------------------------
(* Ordering of text, integers as text.                                     *)

\* the characters of the model in code-point order
Alphabet ==
    <<" ","%","(",")","-",".","/","0","1","2","3","4","5","6","7","8","9",
      "A","B","C","D","E","F","G","H","I","J","K","L","M","N","O","P","Q",
      "R","S","T","U","V","W","X","Y","Z","_","a","b","c","d","e","f","g",
      "h","i","j","k","l","m","n","o","p","q","r","s","t","u","v","w","x",
      "y","z","Ë","ë">>

Code(c) == CHOOSE i \in DOMAIN Alphabet : Alphabet[i] = c

RECURSIVE TextLess(_, _)
\* a < b on Python strings
TextLess(a, b) ==
    IF b = <<>> THEN FALSE
    ELSE IF a = <<>> THEN TRUE
    ELSE IF Head(a) = Head(b) THEN TextLess(Tail(a), Tail(b))
    ELSE Code(Head(a)) < Code(Head(b))

RECURSIVE InsertText(_, _)
InsertText(sorted, x) ==
    IF sorted = <<>> THEN <<x>>
    ELSE IF TextLess(x, Head(sorted)) THEN <<x>> \o sorted
    ELSE <<Head(sorted)>> \o InsertText(Tail(sorted), x)

RECURSIVE SortedTexts(_)
\* sorted(list(set_of_texts))
SortedTexts(S) ==
    IF S = {} THEN <<>>
    ELSE LET x == CHOOSE y \in S : TRUE
         IN  InsertText(SortedTexts(S \ {x}), x)

\* sorted(s, key=len, reverse=True): longer elements first, elements of equal
\* length in their original order (the sort is stable)
SortedByLenDesc(s) ==
    LET before(j, i) ==
            Len(s[j]) > Len(s[i]) \/ (Len(s[j]) = Len(s[i]) /\ j < i)
        rank(i) == Cardinality({j \in DOMAIN s : before(j, i)}) + 1
    IN  [k \in DOMAIN s |-> s[CHOOSE i \in DOMAIN s : rank(i) = k]]

DigitChars == <<"0","1","2","3","4","5","6","7","8","9">>

RECURSIVE NatToText(_)
NatToText(n) ==
    IF n < 10 THEN <<DigitChars[n + 1]>>
    ELSE NatToText(n \div 10) \o <<DigitChars[(n % 10) + 1]>>

\* str(n) of an integer
IntToText(n) == IF n < 0 THEN <<"-">> \o NatToText(0 - n) ELSE NatToText(n)

---------------------------------------------------------------------------
(* The repository: the batteries table, the vehicle_battery_fitment table  *)
(* and the battery_vehicle_fitments junction table (models/product.py).    *)

\* rows of the batteries table, in id order; prices in cents
Batteries ==
    <<[id |-> "b1", brand |-> "Fulgor", model_code |-> <<"F","2","2","N","F","-","7","5","0">>,
       warranty_months |-> Some(18), price_regular |-> Some(12637),
       price_discount_fx |-> None],
      [id |-> "b2", brand |-> "Black Edition", model_code |-> <<"B","N","2","2","N","F","-","8","5","0">>,
       warranty_months |-> None, price_regular |-> Some(14491),
       price_discount_fx |-> Some(13000)]>>

BatteryIds == {Batteries[i].id : i \in DOMAIN Batteries}

\* the ids of the battery products of the update functions
ProductIds == {<<"b","1">>, <<"b","2">>}

\* the batteries table the update functions start from: one row, with the
\* columns the functions read and write; prices in cents
InitialProducts ==
    <<"b","1">> :> [brand |-> Some(<<"F","u","l","g","o","r">>),
                 model_code |-> Some(<<"F","2","2","N","F","-","7","5","0">>),
                 price_regular |-> Some(12637),
                 price_discount_fx |-> Some(11000),
                 stock |-> Some(0)]

\* rows of the vehicle_battery_fitment table; fitment_id is the row's index
Fitments ==
    <<[fitment_id |-> 1, vehicle_make |-> <<"T","O","Y","O","T","A">>, vehicle_model |-> <<"C","O","R","O","L","L","A">>,
       year_start |-> 2003, year_end |-> Some(2014),
       engine_details |-> None, notes |-> None],
      [fitment_id |-> 2, vehicle_make |-> <<"T","O","Y","O","T","A">>, vehicle_model |-> <<"C","O","R","O","L","L","A"," ","S">>,
       year_start |-> 2015, year_end |-> None,
       engine_details |-> Some(<<"4","C","I","L">>), notes |-> None],
      [fitment_id |-> 3, vehicle_make |-> <<"T","O","Y","O","T","A">>, vehicle_model |-> <<"C","O","R","O","L","L","A"," ","L","E">>,
       year_start |-> 2015, year_end |-> Some(2019),
       engine_details |-> Some(<<"1",".","8","L">>), notes |-> Some(<<"4"," ","c","i","l">>)],
      [fitment_id |-> 4, vehicle_make |-> <<"F","O","R","D">>, vehicle_model |-> <<"F","I","E","S","T","A">>,
       year_start |-> 1996, year_end |-> Some(2010),
       engine_details |-> None, notes |-> None],
      [fitment_id |-> 5, vehicle_make |-> <<"G","E","E","L","Y">>, vehicle_model |-> <<"C","O","R","O","L","L","A">>,
       year_start |-> 2003, year_end |-> Some(2014),
       engine_details |-> None, notes |-> None],
      [fitment_id |-> 6, vehicle_make |-> <<"F","O","R","D">>, vehicle_model |-> <<"F","-","1","5","0">>,
       year_start |-> 2010, year_end |-> Some(2020),
       engine_details |-> None, notes |-> None],
      [fitment_id |-> 7, vehicle_make |-> <<"F","O","R","D">>, vehicle_model |-> <<"F","-","1","5","0">>,
       year_start |-> 2010, year_end |-> Some(2020),
       engine_details |-> None, notes |-> Some(<<"4","x","4">>)]>>

FitmentIds == DOMAIN Fitments

RECURSIVE AscendingSeq(_)
\* the elements of a finite set of integers, ascending
AscendingSeq(S) ==
    IF S = {} THEN <<>>
    ELSE LET m == CHOOSE x \in S : \A y \in S : x <= y
         IN  <<m>> \o AscendingSeq(S \ {m})

\* fitment.compatible_battery_products of one fitment: the linked rows of
\* the batteries table
CompatibleBatteryProducts(links, fitment_id) ==
    SelectSeq(Batteries, LAMBDA b : b.id \in links[fitment_id])

\* frozenset(p.id for p in f.compatible_battery_products)
BatteryIdSet(links, fitment_id) ==
    {b.id : b \in Range(CompatibleBatteryProducts(links, fitment_id))}

---------------------------------------------------------------------------
(* The cache of distinct makes.                                            *)

CACHE_DURATION_SECONDS == 3600

FUZZY_MATCH_CONFIDENCE_THRESHOLD == 85

\* db_session.query(VehicleBatteryFitment.vehicle_make).distinct().all()
DistinctMakeRows ==
    LET firsts == {i \in FitmentIds :
                     \A j \in 1..(i - 1) :
                        Fitments[j].vehicle_make # Fitments[i].vehicle_make}
        ids == AscendingSeq(firsts)
    IN  [k \in DOMAIN ids |-> Fitments[ids[k]].vehicle_make]

\* _get_all_makes_cached at time current_time; db_fails: the query raises.
\* Gives the list returned, the cache afterwards, and whether the
\* repository was queried.
GetAllMakesCached(cache, current_time, db_fails) ==
    IF /\ cache.data # None
       /\ cache.data[1] # <<>>
       /\ current_time - cache.timestamp < CACHE_DURATION_SECONDS
    THEN [makes |-> cache.data[1], cache |-> cache, queried |-> FALSE]
    ELSE IF db_fails
         THEN [makes |-> <<>>, cache |-> cache, queried |-> TRUE]
         ELSE LET makes == SortedByLenDesc(
                              SelectSeq(DistinctMakeRows, LAMBDA m : m # <<>>))
              IN  [makes |-> makes,
                   cache |-> [data |-> Some(makes), timestamp |-> current_time],
                   queried |-> TRUE]

---------------------------------------------------------------------------
(* services/ai_service.py: the vehicle query parser.                       *)

ParserKeys == {"make", "model", "year", "engine_details"}

\* a variant of the parser wrapper without the validation of the keys
ParseVehicleQueryUnvalidated(query, reply) ==
    IF query = <<>> THEN None
    ELSE IF reply.kind = "json" THEN Some(reply.json) ELSE None

\* parse_vehicle_query_to_structured(user_query), the chat completion
\* answering with reply: None without a query, when the call raises (an
\* error, a timeout), when the content is not JSON or lacks one of the keys
ParseVehicleQueryToStructured(query, reply) ==
    IF query = <<>> THEN None
    ELSE IF reply.kind = "json" /\ ParserKeys \subseteq DOMAIN reply.json
         THEN Some(reply.json)
         ELSE None

---------------------------------------------------------------------------
(* _find_make_from_query.                                                  *)

\* MAKE_ALIASES.get(key): None when the key is absent
AliasGet(key) ==
    LET hits == {i \in DOMAIN MAKE_ALIASES : MAKE_ALIASES[i][1] = key}
    IN  IF hits = {} THEN None
        ELSE Some(MAKE_ALIASES[CHOOSE i \in hits : TRUE][2])

\* a variant of the order of the aliases with the shorter first
SortsBeforeAscending(i, j) ==
    \/ Len(MAKE_ALIASES[i][1]) < Len(MAKE_ALIASES[j][1])
    \/ Len(MAKE_ALIASES[i][1]) = Len(MAKE_ALIASES[j][1]) /\ i < j

\* alias i comes before alias j in sorted(MAKE_ALIASES.keys(), key=len,
\* reverse=True): the longer first, equally long ones in dictionary order
SortsBefore(i, j) ==
    \/ Len(MAKE_ALIASES[i][1]) > Len(MAKE_ALIASES[j][1])
    \/ Len(MAKE_ALIASES[i][1]) = Len(MAKE_ALIASES[j][1]) /\ i < j

\* the loop over sorted_aliases: the entry <<alias, canonical make>> of the
\* first alias, in that order, that is a substring of the query
FirstAliasIn(query_lower) ==
    LET hits == {i \in DOMAIN MAKE_ALIASES :
                    Contains(query_lower, MAKE_ALIASES[i][1])}
    IN  IF hits = {} THEN None
        ELSE Some(MAKE_ALIASES[CHOOSE i \in hits :
                                  \A j \in hits \ {i} : SortsBefore(i, j)])

\* scores the fuzzy matcher may report
FuzzyScores ==
    {FUZZY_MATCH_CONFIDENCE_THRESHOLD - 1, FUZZY_MATCH_CONFIDENCE_THRESHOLD, 100}

\* fuzzy_process.extractOne(query_lower, all_makes): None without choices,
\* else one of the choices with its score
FuzzyReplies(all_makes) ==
    IF all_makes = <<>> THEN {None}
    ELSE {Some(<<m, s>>) : m \in Range(all_makes), s \in FuzzyScores}

\* a variant of the fuzzy step that takes the best match only above the threshold
FuzzyAcceptAbove(match) ==
    IF match # None /\ match[1][2] > FUZZY_MATCH_CONFIDENCE_THRESHOLD
    THEN Some(match[1][1])
    ELSE None

\* the fuzzy step of _find_make_from_query: the best match is taken when
\* its score reaches the threshold
FuzzyAccept(match) ==
    IF match # None /\ match[1][2] >= FUZZY_MATCH_CONFIDENCE_THRESHOLD
    THEN Some(match[1][1])
    ELSE None

\* _find_make_from_query(db_session, user_query), with the list of makes and
\* the reply of extractOne: the make found, and the best match when
\* extractOne was called
FindMakeFromQuery(query, all_makes, fuzzy_reply) ==
    LET alias == FirstAliasIn(Lower(query))
    IN  IF alias # None
        THEN [make |-> Some(alias[1][2]), best_match |-> None]
        ELSE [make |-> FuzzyAccept(fuzzy_reply), best_match |-> fuzzy_reply]

---------------------------------------------------------------------------
(* find_batteries_for_vehicle: its stages as functions.                    *)

\* Tier 1 succeeds: ai_parsed and ai_parsed.get("make") and ai_parsed.get("model")
TierOneUsable(parsed) ==
    parsed # None /\ TruthyText(parsed[1].make) /\ TruthyText(parsed[1].model)

\* a variant of the normalizer that gives the make in lower case
NormalizeMakeLowered(make) ==
    LET canonical == AliasGet(Lower(make))
    IN  IF canonical # None THEN Lower(canonical[1]) ELSE make

\* MAKE_ALIASES.get(make.lower(), make)
NormalizeMake(make) ==
    LET canonical == AliasGet(Lower(make))
    IN  IF canonical # None THEN canonical[1] ELSE make

\* [k for k, v in MAKE_ALIASES.items() if v == found_make] + [found_make]
AllAliasesForMake(make) ==
    LET entries == SelectSeq(MAKE_ALIASES, LAMBDA e : e[2] = make)
    IN  [i \in DOMAIN entries |-> entries[i][1]] \o <<make>>

RECURSIVE RemoveTerms(_, _)
RemoveTerms(text, terms) ==
    IF terms = <<>> THEN text
    ELSE RemoveTerms(RegexRemove(text, Head(terms)), Tail(terms))

\* the query with the make and its aliases removed, longest term first
RemainingQuery(query, make) ==
    RemoveTerms(query, SortedByLenDesc(AllAliasesForMake(make)))

\* the vehicle data rebuilt in Tier 2 from the make and the second parse
ReconstructedVehicle(make, remaining, parsed) ==
    [make |-> Some(make),
     model |-> IF parsed # None THEN parsed[1].model ELSE Some(Strip(remaining)),
     year |-> IF parsed # None THEN parsed[1].year ELSE None,
     engine_details |-> IF parsed # None THEN parsed[1].engine_details ELSE None]

StageOneLimit == 10

\* a variant of the Stage 1 filters that searches every make
StageOneFilterAnyMake(vehicle) ==
    [make |-> None,
     model_keywords |-> IF TruthyText(vehicle.model)
                        THEN ModelKeywords(vehicle.model[1]) ELSE <<>>,
     year |-> IF TruthyInt(vehicle.year) THEN vehicle.year ELSE None]

\* the filters the Stage 1 query is built with
StageOneFilter(vehicle) ==
    [make |-> IF TruthyText(vehicle.make) THEN vehicle.make ELSE None,
     model_keywords |-> IF TruthyText(vehicle.model)
                        THEN ModelKeywords(vehicle.model[1]) ELSE <<>>,
     year |-> IF TruthyInt(vehicle.year) THEN vehicle.year ELSE None]

\* a variant of the WHERE clause that takes a year_end of NULL for a range
\* that has ended
MatchesFilterClosedYears(f, flt) ==
    /\ flt.make # None => ILike(f.vehicle_make, flt.make[1])
    /\ \A i \in DOMAIN flt.model_keywords :
          WordMatch(f.vehicle_model, flt.model_keywords[i])
    /\ flt.year # None =>
          /\ f.year_start <= flt.year[1]
          /\ f.year_end # None
          /\ f.year_end[1] >= flt.year[1]

\* the WHERE clause of the Stage 1 query on one row
MatchesFilter(f, flt) ==
    /\ flt.make # None => ILike(f.vehicle_make, flt.make[1])
    /\ \A i \in DOMAIN flt.model_keywords :
          WordMatch(f.vehicle_model, flt.model_keywords[i])
    /\ flt.year # None =>
          /\ f.year_start <= flt.year[1]
          /\ (f.year_end = None \/ f.year_end[1] >= flt.year[1])

\* query_builder.limit(10).all(): the ids of the matching rows
StageOneQuery(flt) ==
    LET rows == SelectSeq(AscendingSeq(FitmentIds),
                          LAMBDA id : MatchesFilter(Fitments[id], flt))
    IN  SubSeq(rows, 1, IF Len(rows) < StageOneLimit THEN Len(rows) ELSE StageOneLimit)

\* " ".join(filter(None, [model, engine_details, notes])).lower()
SearchableText(f) ==
    LET fields == <<Some(f.vehicle_model), f.engine_details, f.notes>>
        kept == SelectSeq(fields, TruthyText)
    IN  Lower(JoinWith(<<" ">>, [i \in DOMAIN kept |-> kept[i][1]]))

\* set(re.findall(r'\w+', engine_details.lower()))
EngineKeywords(vehicle) == WordSet(Lower(vehicle.engine_details[1]))

\* a variant of the engine filter that keeps a candidate for any one keyword
EngineFilteredAnyKeyword(candidates, vehicle) ==
    SelectSeq(candidates,
              LAMBDA id : \E kw \in EngineKeywords(vehicle) :
                             Contains(SearchableText(Fitments[id]), kw))

\* the candidates that contain every engine keyword
EngineFiltered(candidates, vehicle) ==
    SelectSeq(candidates,
              LAMBDA id : \A kw \in EngineKeywords(vehicle) :
                             Contains(SearchableText(Fitments[id]), kw))

\* a variant of Stage 2 that keeps the filtered list even when it is empty
StageTwoWithoutFallback(candidates, vehicle) ==
    IF Len(candidates) > 1 /\ TruthyText(vehicle.engine_details)
    THEN EngineFiltered(candidates, vehicle)
    ELSE candidates

\* Stage 2: final_fitments from candidate_fitments
StageTwo(candidates, vehicle) ==
    IF Len(candidates) > 1 /\ TruthyText(vehicle.engine_details)
    THEN LET filtered_results == EngineFiltered(candidates, vehicle)
         IN  IF filtered_results # <<>> THEN filtered_results ELSE candidates
    ELSE candidates

---------------------------------------------------------------------------
(* The responses.                                                          *)

MSG_NO_VEHICLE == "No pudimos determinar el vehículo que buscas."

MSG_NO_INFORMATION == "No pudimos encontrar la información para tu vehículo."

MSG_NO_BATTERIES ==
    "Encontramos tu vehículo, pero no tenemos baterías compatibles registradas."

MSG_CLARIFICATION ==
    "Encontré algunas versiones que podrían coincidir. Para darte la batería correcta, por favor selecciona tu vehículo:"

NotFound(message) == [status |-> "not_found", message |-> message]

\* one entry of battery_list
BatteryView(b) ==
    [brand |-> b.brand,
     model_code |-> b.model_code,
     warranty_info |-> IF TruthyInt(b.warranty_months)
                       THEN IntToText(b.warranty_months[1]) \o <<" ","m","e","s","e","s">>
                       ELSE <<"N","o"," ","e","s","p","e","c","i","f","i","c","a","d","a">>,
     price_regular |-> b.price_regular,
     price_discount_fx |-> b.price_discount_fx]

\* f"{year_start}-{year_end or 'Presente'}"
YearRange(year_start, year_end) ==
    IntToText(year_start) \o <<"-">>
        \o (IF TruthyInt(year_end) THEN IntToText(year_end[1]) ELSE <<"P","r","e","s","e","n","t","e">>)

\* f"{make} {model} ({year_range})"
VehicleKey(make, model, year_range) ==
    make \o <<" ">> \o model \o <<" ","(">> \o year_range \o <<")">>

\* a variant of _format_success_response that lists only the first battery
FormatSuccessResponseFirstOnly(links, f) ==
    LET products == CompatibleBatteryProducts(links, f.fitment_id)
        vehicle_key == VehicleKey(f.vehicle_make, f.vehicle_model,
                                  YearRange(f.year_start, f.year_end))
    IN  IF products = <<>>
        THEN NotFound(MSG_NO_BATTERIES)
        ELSE [status |-> "success",
              results |-> (vehicle_key :> <<BatteryView(products[1])>>)]

\* _format_success_response for a fitment whose batteries were fetched
FormatSuccessResponse(links, f) ==
    LET products == CompatibleBatteryProducts(links, f.fitment_id)
        battery_list == [i \in DOMAIN products |-> BatteryView(products[i])]
        vehicle_key == VehicleKey(f.vehicle_make, f.vehicle_model,
                                  YearRange(f.year_start, f.year_end))
    IN  IF products = <<>>
        THEN NotFound(MSG_NO_BATTERIES)
        ELSE [status |-> "success", results |-> (vehicle_key :> battery_list)]

RECURSIVE FirstOccurrences(_, _)
\* the elements of s, each kept where it first occurs; seen: those kept so far
FirstOccurrences(s, seen) ==
    IF s = <<>> THEN <<>>
    ELSE IF Head(s) \in seen THEN FirstOccurrences(Tail(s), seen)
         ELSE <<Head(s)>> \o FirstOccurrences(Tail(s), seen \cup {Head(s)})

Min(S) == CHOOSE x \in S : \A y \in S : x <= y

Max(S) == CHOOSE x \in S : \A y \in S : x >= y

\* _format_merged_success_response(fitments), fitments given by their ids
FormatMergedSuccessResponse(links, ids) ==
    LET fitments == [i \in DOMAIN ids |-> Fitments[ids[i]]]
        make == fitments[1].vehicle_make
        models == SortedTexts({f.vehicle_model : f \in Range(fitments)})
        model_str == JoinWith(<<" ","/"," ">>, models)
        min_year == Min({f.year_start : f \in Range(fitments)})
        max_year_ends == {f.year_end[1] : f \in {g \in Range(fitments) : g.year_end # None}}
        max_year == IF max_year_ends # {} THEN Some(Max(max_year_ends)) ELSE None
        vehicle_key == VehicleKey(make, model_str, YearRange(min_year, max_year))
        products == CompatibleBatteryProducts(links, ids[1])
        kept == FirstOccurrences([i \in DOMAIN products |-> products[i].id], {})
        battery_list ==
            [i \in DOMAIN kept |->
                BatteryView(CHOOSE b \in Range(products) : b.id = kept[i])]
    IN  [status |-> "success", results |-> (vehicle_key :> battery_list)]

\* the option string of one fitment
OptionKey(f) ==
    LET year_range == YearRange(f.year_start, f.year_end)
    IN  IF TruthyText(f.engine_details)
        THEN VehicleKey(f.vehicle_make,
                        f.vehicle_model \o <<" ">> \o f.engine_details[1], year_range)
        ELSE VehicleKey(f.vehicle_make, f.vehicle_model, year_range)

\* a variant of _format_clarification_response that lists an option for
\* every fitment, equal strings included
FormatClarificationResponseAllKeys(ids) ==
    [status |-> "clarification_needed",
     message |-> MSG_CLARIFICATION,
     options |-> [i \in DOMAIN ids |-> OptionKey(Fitments[ids[i]])]]

\* _format_clarification_response(fitments), fitments given by their ids
FormatClarificationResponse(ids) ==
    [status |-> "clarification_needed",
     message |-> MSG_CLARIFICATION,
     options |-> FirstOccurrences([i \in DOMAIN ids |-> OptionKey(Fitments[ids[i]])], {})]

\* a variant of the branch for several fitments that never merges
ResolveAmbiguityNeverMerging(links, final, fetched) ==
    IF fetched = <<>> \/ \A i \in DOMAIN fetched : BatteryIdSet(links, fetched[i]) = {}
    THEN NotFound(MSG_NO_BATTERIES)
    ELSE FormatClarificationResponse(final)

\* a variant of the branch for several fitments that compares only the
\* battery sets that are not empty
ResolveAmbiguityIgnoringEmpty(links, final, fetched) ==
    LET linked == SelectSeq(fetched, LAMBDA id : BatteryIdSet(links, id) # {})
    IN  IF linked = <<>>
        THEN NotFound(MSG_NO_BATTERIES)
        ELSE IF \A i \in DOMAIN linked :
                   BatteryIdSet(links, linked[i]) = BatteryIdSet(links, linked[1])
             THEN FormatMergedSuccessResponse(links, linked)
             ELSE FormatClarificationResponse(final)

\* the branch for several final fitments; fetched: the ids of
\* fitments_with_batteries in the order the query returned the rows
ResolveAmbiguity(links, final, fetched) ==
    IF fetched = <<>> \/ \A i \in DOMAIN fetched : BatteryIdSet(links, fetched[i]) = {}
    THEN NotFound(MSG_NO_BATTERIES)
    ELSE LET first_battery_set == BatteryIdSet(links, fetched[1])
         IN  IF first_battery_set = {}
             THEN FormatClarificationResponse(final)
             ELSE IF \A i \in 2..Len(fetched) :
                        BatteryIdSet(links, fetched[i]) = first_battery_set
                  THEN FormatMergedSuccessResponse(links, fetched)
                  ELSE FormatClarificationResponse(final)

\* the orders in which the query by fitment_id IN (...) may return the rows:
\* the result depends on the first row and on the set of rows only, so any
\* row first and the others in id order
FetchOrders(final) ==
    {<<final[h]>> \o SelectSeq(final, LAMBDA id : id # final[h]) : h \in DOMAIN final}

---------------------------------------------------------------------------
(* Inputs.                                                                 *)

Json(make, model, year, engine_details) ==
    [kind |-> "json",
     json |-> [make |-> make, model |-> model, year |-> year,
               engine_details |-> engine_details]]

\* what the chat completion of the parser may do
LLMReplies ==
    { [kind |-> "raises", json |-> EmptyDict],     \* an error or a timeout
      [kind |-> "not_json", json |-> EmptyDict],   \* json.loads fails
      [kind |-> "json", json |-> [make |-> Some(<<"T","O","Y","O","T","A">>), model |-> Some(<<"C","O","R","O","L","L","A">>)]],
      Json(None, None, None, None),
      Json(Some(<<"T","O","Y","O","T","A">>), None, None, None),
      Json(None, Some(<<"C","O","R","O","L","L","A">>), Some(2016), Some(<<"4","c","i","l">>)),
      Json(Some(<<"T","O","Y","O","T","A">>), Some(<<"C","O","R","O","L","L","A">>), Some(2016), None),
      Json(Some(<<"t","o","y","o","t","a">>), Some(<<"C","O","R","O","L","L","A"," ","S">>), None, Some(<<"4","c","i","l">>)),
      Json(Some(<<"T","O","Y","O","T","A">>), Some(<<"C","O","R","O","L","L","A">>), None, Some(<<"d","i","e","s","e","l">>)),
      Json(Some(<<"T","o","y","o","t","a">>), Some(<<"C","O","R","O","L","L","A">>), Some(2005), None),
      Json(Some(<<"G","e","e","l","y">>), Some(<<"C","O","R","O","L","L","A">>), Some(2005), None),
      Json(Some(<<"%">>), Some(<<"C","O","R","O","L","L","A">>), Some(2005), None),
      Json(Some(<<"F","O","R","D">>), Some(<<"F","I","E","S","T","A">>), Some(2000), None),
      Json(Some(<<"F","O","R","D">>), Some(<<"F","-","1","5","0">>), None, None),
      Json(Some(<<"T","O","Y","O","T","A">>), Some(<<"C","O","R","O","L","L","A"," ","L","E">>), None, None),
      Json(Some(<<"T","O","Y","O","T","A">>), Some(<<"C","O","R","O","L","L","A">>), None, Some(<<"1",".","8","L"," ","c","i","l">>)) }

\* the texts the user may send
Queries ==
    { <<>>,
      <<"t","o","y","o","t","a"," ","c","o","r","o","l","l","a"," ","2","0","1","6">>,
      <<"c","o","r","o","l","a"," ","g","e","e","l","y">>,
      <<"b","a","t","e","r","i","a">>,
      <<"p","r","o","g","r","a","m","a">>,
      <<"A","l","f","a"," ","R","o","m","e","o"," ","1","5","6">> }

LinkSets == {{}, {"b1"}, {"b1", "b2"}}

\* the junction tables the model starts from: every choice of batteries for
\* the two COROLLA fitments that share their years
LinkConfigs ==
    {l \in [FitmentIds -> LinkSets] :
        /\ l[1] = {"b1"} /\ l[4] = {} /\ l[5] = {"b1", "b2"}
        /\ l[6] = {"b1"} /\ l[7] = {"b1", "b2"}}

\* the time of the model: the cache, stamped 0 at import, is an hour old
StartTime == 3600

---------------------------------------------------------------------------
(* find_batteries_for_vehicle, step by step.                               *)

RepoCall(op, flt) == [op |-> op, filter |-> flt]

\* a call of the parser: the text, and the reply of the chat completion (none
\* for the empty text, which returns before the completion is asked for)
ParserCall(query, reply) ==
    [query |-> query, reply |-> IF query = <<>> THEN None ELSE Some(reply)]

NoVehicle == [make |-> None, model |-> None, year |-> None, engine_details |-> None]

\* the call starts; an empty query returns {} at once
Call(query) ==
    /\ pc \in {"idle", "done", "raised"}
    /\ user_query' = query
    /\ ai_parsed' = None
    /\ found_make' = None
    /\ best_match' = None
    /\ remaining_query' = <<>>
    /\ re_parsed' = None
    /\ parsed_vehicle' = NoVehicle
    /\ candidate_fitments' = <<>>
    /\ final_fitments' = <<>>
    /\ parser_calls' = <<>>
    /\ repo_calls' = <<>>
    /\ IF query = <<>>
       THEN pc' = "done" /\ result' = EmptyDict
       ELSE pc' = "tier1" /\ result' = EmptyDict
    /\ UNCHANGED <<battery_links, makes_cache, now, financing_vars, alias_vars,
                   battery_vars,
                   cache_vars>>

\* TIER 1: the parser is asked; a make and a model make the fast path
TierOne(reply) ==
    /\ pc = "tier1"
    /\ LET parsed == ParseVehicleQueryToStructured(user_query, reply)
       IN  /\ ai_parsed' = parsed
           /\ parser_calls' = Append(parser_calls, ParserCall(user_query, reply))
           /\ IF TierOneUsable(parsed)
              THEN /\ parsed_vehicle' =
                        [parsed[1] EXCEPT !.make = Some(NormalizeMake(parsed[1].make[1]))]
                   /\ pc' = "stage1"
              ELSE /\ parsed_vehicle' = parsed_vehicle
                   /\ pc' = "tier2"
    /\ UNCHANGED <<user_query, found_make, best_match, remaining_query, re_parsed,
                   candidate_fitments, final_fitments, result, repo_calls,
                   battery_links, makes_cache, now, financing_vars, alias_vars,
                   battery_vars,
                   cache_vars>>

\* TIER 2, the make: _find_make_from_query reads the makes through the cache
\* (db_fails: the query for the makes raises) and asks the fuzzy matcher when
\* no alias is in the query; without a make the call ends
TierTwoFindMake ==
    /\ pc = "tier2"
    /\ \E db_fails \in BOOLEAN :
          LET cached == GetAllMakesCached(makes_cache, now, db_fails)
          IN  \E fuzzy_reply \in FuzzyReplies(cached.makes) :
                 LET found == FindMakeFromQuery(user_query, cached.makes, fuzzy_reply)
                 IN  /\ makes_cache' = cached.cache
                     /\ repo_calls' =
                          IF cached.queried
                          THEN Append(repo_calls, RepoCall("distinct_makes", None))
                          ELSE repo_calls
                     /\ found_make' = found.make
                     /\ best_match' = found.best_match
                     /\ IF TruthyText(found.make)
                        THEN pc' = "reparse" /\ result' = result
                        ELSE pc' = "done" /\ result' = NotFound(MSG_NO_VEHICLE)
    /\ UNCHANGED <<user_query, ai_parsed, remaining_query, re_parsed, parsed_vehicle,
                   candidate_fitments, final_fitments, parser_calls, battery_links,
                   now, financing_vars, alias_vars,
                   battery_vars,
                   cache_vars>>

\* TIER 2, the rest: the make and its aliases are removed from the query, the
\* parser is asked again and the vehicle data is rebuilt
TierTwoReparse(reply) ==
    /\ pc = "reparse"
    /\ LET remaining == RemainingQuery(user_query, found_make[1])
           parsed == ParseVehicleQueryToStructured(Strip(remaining), reply)
       IN  /\ remaining_query' = remaining
           /\ re_parsed' = parsed
           /\ parser_calls' = Append(parser_calls, ParserCall(Strip(remaining), reply))
           /\ parsed_vehicle' = ReconstructedVehicle(found_make[1], remaining, parsed)
           /\ pc' = "stage1"
    /\ UNCHANGED <<user_query, ai_parsed, found_make, best_match, candidate_fitments,
                   final_fitments, result, repo_calls, battery_links, makes_cache,
                   now, financing_vars, alias_vars,
                   battery_vars,
                   cache_vars>>

\* Stage 1: the fitment search; db_fails: the query raises and {} is returned
StageOne(db_fails) ==
    /\ pc = "stage1"
    /\ LET flt == StageOneFilter(parsed_vehicle)
       IN  /\ repo_calls' = Append(repo_calls, RepoCall("fitment_search", Some(flt)))
           /\ IF db_fails
              THEN /\ result' = EmptyDict
                   /\ pc' = "done"
                   /\ UNCHANGED candidate_fitments
              ELSE /\ candidate_fitments' = StageOneQuery(flt)
                   /\ pc' = "stage2"
                   /\ UNCHANGED result
    /\ UNCHANGED <<user_query, ai_parsed, found_make, best_match, remaining_query,
                   re_parsed, parsed_vehicle, final_fitments, parser_calls,
                   battery_links, makes_cache, now, financing_vars, alias_vars,
                   battery_vars,
                   cache_vars>>

\* Stage 2: the engine keywords filter the candidates in memory
StageTwoStep ==
    /\ pc = "stage2"
    /\ final_fitments' = StageTwo(candidate_fitments, parsed_vehicle)
    /\ pc' = "resolve"
    /\ UNCHANGED <<user_query, ai_parsed, found_make, best_match, remaining_query,
                   re_parsed, parsed_vehicle, candidate_fitments, result,
                   parser_calls, repo_calls, battery_links, makes_cache, now,
                   financing_vars, alias_vars,
                   battery_vars,
                   cache_vars>>

\* Final result handling; db_fails: the query that fetches the batteries
\* raises, and the exception leaves find_batteries_for_vehicle
Resolve ==
    /\ pc = "resolve"
    /\ IF final_fitments = <<>>
       THEN /\ result' = NotFound(MSG_NO_INFORMATION)
            /\ pc' = "done"
            /\ UNCHANGED repo_calls
       ELSE /\ repo_calls' = Append(repo_calls, RepoCall("fitment_batteries", None))
            /\ \E db_fails \in BOOLEAN :
                  IF db_fails
                  THEN pc' = "raised" /\ UNCHANGED result
                  ELSE /\ pc' = "done"
                       /\ IF Len(final_fitments) = 1
                          THEN result' = FormatSuccessResponse(
                                             battery_links, Fitments[final_fitments[1]])
                          ELSE \E fetched \in FetchOrders(final_fitments) :
                                  result' = ResolveAmbiguity(
                                                battery_links, final_fitments, fetched)
    /\ UNCHANGED <<user_query, ai_parsed, found_make, best_match, remaining_query,
                   re_parsed, parsed_vehicle, candidate_fitments, final_fitments,
                   parser_calls, battery_links, makes_cache, now, financing_vars, alias_vars,
                   battery_vars,
                   cache_vars>>

---------------------------------------------------------------------------

\* the threads that call _get_all_makes_cached at the same time
Callers == {"c1", "c2"}

\* a caller outside the function: its locals, what it returned, and history
\* of its last call (the cache as it was when the call began, whether another
\* call overlapped, the time the repository was read, the calls made so far)
IdleCaller ==
    [pc |-> "idle", current_time |-> 0, makes |-> <<>>, returned |-> None,
     queried |-> FALSE, stored |-> FALSE, read_at |-> 0, alone |-> TRUE,
     before |-> [data |-> None, timestamp |-> 0], calls |-> 0]

\* no refresh has written the cache yet
NoRefresh == [started |-> 0, read_at |-> 0]

\* the state at import, but for the inputs of the make normalizer and of
\* the alias scan
InitProgram ==
    /\ pc = "idle"
    /\ user_query = <<>>
    /\ ai_parsed = None
    /\ found_make = None
    /\ best_match = None
    /\ remaining_query = <<>>
    /\ re_parsed = None
    /\ parsed_vehicle = NoVehicle
    /\ candidate_fitments = <<>>
    /\ final_fitments = <<>>
    /\ result = EmptyDict
    /\ parser_calls = <<>>
    /\ repo_calls = <<>>
    /\ battery_links \in LinkConfigs
    /\ makes_cache = [data |-> None, timestamp |-> 0]
    /\ now = StartTime
    /\ financing_rules = <<>>
    /\ fin_result = EmptyDict
    /\ fin_call = [op |-> "none"]
    /\ stored_batteries = InitialProducts
    /\ session_batteries = InitialProducts
    /\ bat_result = [op |-> "none"]
    /\ callers = [c \in Callers |-> IdleCaller]
    /\ makes_table = DistinctMakeRows
    /\ cache_origin = NoRefresh

Init ==
    /\ InitProgram
    /\ make_text = [input |-> <<>>, values |-> <<>>]
    /\ scan = [query |-> <<>>, found |-> None]

Next ==
    \/ \E query \in Queries : Call(query)
    \/ \E reply \in LLMReplies : TierOne(reply)
    \/ TierTwoFindMake
    \/ \E reply \in LLMReplies : TierTwoReparse(reply)
    \/ \E db_fails \in BOOLEAN : StageOne(db_fails)
    \/ StageTwoStep
    \/ Resolve

Spec == Init /\ [][Next]_vars

---------------------------------------------------------------------------
(* The Cashea financing calculator.  A Decimal amount of money is an       *)
(* integer number of thousandths of the currency unit, so that a price     *)
(* with more than two decimals can be told from its rounding; a Decimal    *)
(* fraction (0.30) is an integer number of ten-thousandths (3000).         *)

\* the nearest integer to num / den (den > 0), a tie going away from zero:
\* ROUND_HALF_UP of the decimal module
RoundHalfUp(num, den) ==
    IF num >= 0
    THEN (2 * num + den) \div (2 * den)
    ELSE -((2 * (-num) + den) \div (2 * den))

\* (num / den).quantize(Decimal('0.01'), rounding=ROUND_HALF_UP), for an
\* amount of num / den thousandths: a whole number of cents, in thousandths
Quantize(num, den) == RoundHalfUp(num, den * 10) * 10

\* (amount * fraction).quantize(Decimal('0.01'), rounding=ROUND_HALF_UP)
QuantizedShare(amount, fraction) == Quantize(amount * fraction, 10000)

\* one row of financing_rules, as update_financing_rules builds it
FinancingRule(provider, level_name, initial_payment_percentage, installments, provider_discount_percentage) ==
    [provider |-> provider,
     level_name |-> level_name,
     initial_payment_percentage |-> initial_payment_percentage,
     installments |-> installments,
     provider_discount_percentage |-> provider_discount_percentage]

\* a variant of the discount test that ignores the foreign-currency flag
DiscountAppliesIgnoringFlag(rule, apply_discount) ==
    /\ rule.provider_discount_percentage # None
    /\ rule.provider_discount_percentage[1] > 0

\* apply_discount and the rule has a discount fraction above zero
DiscountApplies(rule, apply_discount) ==
    /\ apply_discount
    /\ rule.provider_discount_percentage # None
    /\ rule.provider_discount_percentage[1] > 0

\* a variant of the plan that takes the initial payment from the original price
FinancingPlanInitialOnOriginalPrice(price, rule, apply_discount) ==
    LET discounted == DiscountApplies(rule, apply_discount)
        discount_amount ==
            IF discounted
            THEN QuantizedShare(price, rule.provider_discount_percentage[1])
            ELSE 0
        base_price_for_financing == price - discount_amount
        initial_payment_final == QuantizedShare(price, rule.initial_payment_percentage)
        remaining_balance == base_price_for_financing - initial_payment_final
        installment_amount ==
            IF rule.installments > 0
            THEN Quantize(remaining_balance, rule.installments)
            ELSE IF remaining_balance > 0 THEN Quantize(remaining_balance, 1) ELSE 0
    IN  [level |-> rule.level_name,
         initial_payment |-> initial_payment_final,
         installments_count |-> rule.installments,
         installment_amount |-> installment_amount,
         total_final_price |-> Quantize(base_price_for_financing, 1),
         discount_applied_percent |->
             IF discounted THEN rule.provider_discount_percentage[1] ELSE 0,
         total_discount_amount |-> discount_amount]

\* a variant of the plan that reports the undiscounted price as the total
FinancingPlanTotalOnOriginalPrice(price, rule, apply_discount) ==
    LET discounted == DiscountApplies(rule, apply_discount)
        discount_amount ==
            IF discounted
            THEN QuantizedShare(price, rule.provider_discount_percentage[1])
            ELSE 0
        base_price_for_financing == price - discount_amount
        initial_payment_final ==
            QuantizedShare(base_price_for_financing, rule.initial_payment_percentage)
        remaining_balance == base_price_for_financing - initial_payment_final
        installment_amount ==
            IF rule.installments > 0
            THEN Quantize(remaining_balance, rule.installments)
            ELSE IF remaining_balance > 0 THEN Quantize(remaining_balance, 1) ELSE 0
    IN  [level |-> rule.level_name,
         initial_payment |-> initial_payment_final,
         installments_count |-> rule.installments,
         installment_amount |-> installment_amount,
         total_final_price |-> Quantize(price, 1),
         discount_applied_percent |->
             IF discounted THEN rule.provider_discount_percentage[1] ELSE 0,
         total_discount_amount |-> discount_amount]

\* a variant of the plan that cuts the installment off at the cent
FinancingPlanTruncatedInstallment(price, rule, apply_discount) ==
    LET discounted == DiscountApplies(rule, apply_discount)
        discount_amount ==
            IF discounted
            THEN QuantizedShare(price, rule.provider_discount_percentage[1])
            ELSE 0
        base_price_for_financing == price - discount_amount
        initial_payment_final ==
            QuantizedShare(base_price_for_financing, rule.initial_payment_percentage)
        remaining_balance == base_price_for_financing - initial_payment_final
        installment_amount ==
            IF rule.installments > 0
            THEN (remaining_balance \div (10 * rule.installments)) * 10
            ELSE IF remaining_balance > 0 THEN Quantize(remaining_balance, 1) ELSE 0
    IN  [level |-> rule.level_name,
         initial_payment |-> initial_payment_final,
         installments_count |-> rule.installments,
         installment_amount |-> installment_amount,
         total_final_price |-> Quantize(base_price_for_financing, 1),
         discount_applied_percent |->
             IF discounted THEN rule.provider_discount_percentage[1] ELSE 0,
         total_discount_amount |-> discount_amount]

\* the plan get_cashea_financing_options computes from the price and the
\* rule; discount_applied_percent is in hundredths of a percent
FinancingPlan(price, rule, apply_discount) ==
    LET discounted == DiscountApplies(rule, apply_discount)
        discount_amount ==
            IF discounted
            THEN QuantizedShare(price, rule.provider_discount_percentage[1])
            ELSE 0
        base_price_for_financing == price - discount_amount
        initial_payment_final ==
            QuantizedShare(base_price_for_financing, rule.initial_payment_percentage)
        remaining_balance == base_price_for_financing - initial_payment_final
        installment_amount ==
            IF rule.installments > 0
            THEN Quantize(remaining_balance, rule.installments)
            ELSE IF remaining_balance > 0 THEN Quantize(remaining_balance, 1) ELSE 0
    IN  [level |-> rule.level_name,
         initial_payment |-> initial_payment_final,
         installments_count |-> rule.installments,
         installment_amount |-> installment_amount,
         total_final_price |-> Quantize(base_price_for_financing, 1),
         discount_applied_percent |->
             IF discounted THEN rule.provider_discount_percentage[1] ELSE 0,
         total_discount_amount |-> discount_amount]

\* the rows filter_by(provider='Cashea', level_name=user_level) selects;
\* first() returns one of them, the query having no ORDER BY
CasheaRules(rules, user_level) ==
    {i \in DOMAIN rules :
        rules[i].provider = "Cashea" /\ rules[i].level_name = user_level}

MSG_NO_RULE(user_level) ==
    <<"No se encontró una regla de financiamiento para Cashea Nivel '", user_level, "'.">>

MSG_FINANCING_ERROR ==
    "Error interno del servidor al calcular el financiamiento"

\* the keys a rule must have to be inserted
RuleKeys ==
    {"level_name", "initial_payment_percentage", "installments",
     "provider_discount_percentage"}

\* Decimal(str(value)) and int(value) raise for a value that is no number
Converts(rule_data) ==
    /\ rule_data["initial_payment_percentage"] # None
    /\ rule_data["installments"] # None
    /\ rule_data["provider_discount_percentage"] # None

RECURSIVE StageRules(_, _, _)
\* the loop of update_financing_rules over new_rules: the rows added to the
\* session, and whether a conversion raised
StageRules(provider_name, new_rules, added) ==
    IF new_rules = <<>> THEN [added |-> added, raised |-> FALSE]
    ELSE LET rule_data == Head(new_rules)
         IN  IF ~(RuleKeys \subseteq DOMAIN rule_data)
             THEN StageRules(provider_name, Tail(new_rules), added)
             ELSE IF ~Converts(rule_data)
             THEN [added |-> added, raised |-> TRUE]
             ELSE StageRules(provider_name, Tail(new_rules),
                     Append(added,
                         FinancingRule(provider_name,
                                       rule_data["level_name"][1],
                                       rule_data["initial_payment_percentage"][1],
                                       rule_data["installments"][1],
                                       Some(rule_data["provider_discount_percentage"][1]))))

\* rule data as the caller sends it: each key present maps to an Optional
\* value, None being a value that is no number
RuleData(level_name, initial_payment_percentage, installments, provider_discount_percentage) ==
    [k \in RuleKeys |->
        CASE k = "level_name" -> Some(level_name)
          [] k = "initial_payment_percentage" -> initial_payment_percentage
          [] k = "installments" -> installments
          [] k = "provider_discount_percentage" -> provider_discount_percentage]

RuleDatas ==
    { RuleData("Nivel 1", Some(3000), Some(3), Some(1000)),
      RuleData("Nivel 1", Some(3333), Some(0), Some(0)),
      [k \in RuleKeys \ {"provider_discount_percentage"} |->
          RuleData("Nivel 2", Some(4000), Some(6), None)[k]],
      RuleData("Nivel 2", Some(4000), None, Some(1500)) }

MaxNewRules == 2

NewRuleLists == UNION {[1..n -> RuleDatas] : n \in 0..MaxNewRules}

Providers == {"Cashea", "Otro"}

UserLevels == {"Nivel 1", "Nivel 2"}

\* product_price as the caller sends it: None, or a number in thousandths
ProductPrices ==
    {None, Some(100000), Some(99990), Some(33250), Some(33335), Some(0),
     Some(90010), Some(90030)}

\* what first() may return for the level: None, or one of the matching rows
FirstRule(rules, user_level) ==
    IF CasheaRules(rules, user_level) = {} THEN {None}
    ELSE {Some(rules[i]) : i \in CasheaRules(rules, user_level)}

\* a variant of the body without the test for a missing rule and outside the
\* try: reading the fields of no rule raises
FinancingOptionsUnguarded(product_price, user_level, apply_discount, rule, db_fails) ==
    IF product_price = None \/ db_fails \/ rule = None
    THEN [raised |-> TRUE]
    ELSE [status |-> "success",
          original_product_price |-> product_price[1],
          financing_plan |-> FinancingPlan(product_price[1], rule[1], apply_discount)]

\* the body of get_cashea_financing_options, rule being what first() returned
\* and db_fails telling that the query raised: every exception is caught
FinancingOptions(product_price, user_level, apply_discount, rule, db_fails) ==
    IF product_price = None \/ db_fails
    THEN [status |-> "error", message |-> MSG_FINANCING_ERROR]
    ELSE IF rule = None
    THEN [status |-> "error", message |-> MSG_NO_RULE(user_level)]
    ELSE [status |-> "success",
          original_product_price |-> product_price[1],
          financing_plan |-> FinancingPlan(product_price[1], rule[1], apply_discount)]

\* get_cashea_financing_options(session, product_price, user_level, apply_discount);
\* db_fails: the query for the rule raises
GetCasheaFinancingOptions(product_price, user_level, apply_discount, db_fails) ==
    /\ \E rule \in FirstRule(financing_rules, user_level) :
          /\ fin_result' = FinancingOptions(product_price, user_level, apply_discount,
                                            rule, db_fails)
          /\ fin_call' = [op |-> "get", product_price |-> product_price,
                          user_level |-> user_level,
                          apply_discount |-> apply_discount,
                          db_fails |-> db_fails,
                          rule |-> IF product_price = None \/ db_fails
                                   THEN None ELSE rule]
    /\ UNCHANGED <<resolver_vars, battery_links, makes_cache, now, financing_rules,
                   alias_vars, battery_vars,
                   cache_vars>>

\* update_financing_rules(session, provider_name, new_rules): the rows of the
\* provider are deleted, the valid rules are added; a value that does not
\* convert raises, leaving the session with the rows staged so far
UpdateFinancingRules(provider_name, new_rules) ==
    /\ LET kept == SelectSeq(financing_rules, LAMBDA r : r.provider # provider_name)
           staged == StageRules(provider_name, new_rules, <<>>)
       IN  /\ financing_rules' = kept \o staged.added
           /\ fin_call' = [op |-> "update", provider_name |-> provider_name,
                           new_rules |-> new_rules]
           /\ fin_result' =
                 IF staged.raised
                 THEN [raised |-> TRUE]
                 ELSE [raised |-> FALSE,
                       summary |-> [deleted |-> Len(financing_rules) - Len(kept),
                                    inserted |-> Len(staged.added)]]
    /\ UNCHANGED <<resolver_vars, battery_links, makes_cache, now, alias_vars,
                   battery_vars,
                   cache_vars>>

\* one row of the CSV file as csv.DictReader gives it, the cells stripped and
\* without '%': level is the text of 'Nivel cashea' ("" for an empty cell);
\* the other cells hold None for a text that is no number, or the number (the
\* percentages in ten-thousandths)
CsvRow(level, initial_pct_str, installments_str, discount_pct_str) ==
    [level |-> level, initial_pct_str |-> initial_pct_str, installments_str |-> installments_str, discount_pct_str |-> discount_pct_str]

RECURSIVE StageCsvRows(_, _)
\* the loop of the loader over the rows of the reader: a row without a level
\* is skipped; Decimal() of a text that is no number raises InvalidOperation,
\* which the except (ValueError, TypeError) of the row does not catch; int()
\* of such a text raises ValueError and the row is skipped
StageCsvRows(rows, rules_to_add) ==
    IF rows = <<>> THEN [added |-> rules_to_add, raised |-> FALSE]
    ELSE LET row == Head(rows)
         IN  IF row.level = ""
             THEN StageCsvRows(Tail(rows), rules_to_add)
             ELSE IF row.initial_pct_str = None \/ row.discount_pct_str = None
             THEN [added |-> rules_to_add, raised |-> TRUE]
             ELSE IF row.installments_str = None
             THEN StageCsvRows(Tail(rows), rules_to_add)
             ELSE StageCsvRows(Tail(rows),
                     Append(rules_to_add,
                         FinancingRule("Cashea",
                                       row.level,
                                       row.initial_pct_str[1] \div 100,
                                       row.installments_str[1],
                                       Some(row.discount_pct_str[1] \div 100))))

\* main() of initial_data_scripts/load_cashea_rules.py over the rows of the
\* CSV file: the Cashea rules are deleted and the staged ones added in one
\* transaction, committed only when a rule was staged and rolled back when
\* the loop raised
LoadCasheaRules(csv_rows) ==
    /\ LET kept == SelectSeq(financing_rules, LAMBDA r : r.provider # "Cashea")
           staged == StageCsvRows(csv_rows, <<>>)
       IN  /\ financing_rules' = IF staged.raised \/ staged.added = <<>>
                                 THEN financing_rules
                                 ELSE kept \o staged.added
           /\ fin_call' = [op |-> "load"]
           /\ fin_result' = [raised |-> FALSE, loaded |-> ~staged.raised /\ staged.added # <<>>]
    /\ UNCHANGED <<resolver_vars, battery_links, makes_cache, now, alias_vars,
                   battery_vars,
                   cache_vars>>

\* rows of the CSV file: 30 %, 3 installments, 10 %; 33.33 %, 0, 0 %; a row
\* without a level; a row with a percentage that is no number; a row with
\* installments that are no number
CsvRows ==
    { CsvRow("Nivel 1", Some(300000), Some(3), Some(100000)),
      CsvRow("Nivel 1", Some(333300), Some(0), Some(0)),
      CsvRow("", Some(400000), Some(6), Some(0)),
      CsvRow("Nivel 2", None, Some(6), Some(0)),
      CsvRow("Nivel 2", Some(400000), None, Some(150000)) }

MaxCsvRows == 2

CsvFiles == UNION {[1..n -> CsvRows] : n \in 0..MaxCsvRows}

NextFin ==
    \/ \E product_price \in ProductPrices, user_level \in UserLevels,
          apply_discount \in BOOLEAN, db_fails \in BOOLEAN :
          GetCasheaFinancingOptions(product_price, user_level, apply_discount, db_fails)
    \/ \E provider_name \in Providers, new_rules \in NewRuleLists :
          UpdateFinancingRules(provider_name, new_rules)
    \/ \E csv_rows \in CsvFiles : LoadCasheaRules(csv_rows)

\* the junction table plays no part in the financing calls: one is enough
InitFin ==
    /\ Init
    /\ \A id \in FitmentIds : battery_links[id] = {} \/ id \in {1, 5, 6, 7}

SpecFin == InitFin /\ [][NextFin]_vars

---------------------------------------------------------------------------
(* The battery update functions of services/product_service.py, on the     *)
(* batteries table behind a Session.                                       *)

\* Python values given for a price or a stock: None, a value Decimal() and
\* int() reject (such as 'abc'), or a number (a price in thousandths)
PyNone == [kind |-> "none", v |-> 0]

PyInvalid == [kind |-> "invalid", v |-> 0]

PyNum(n) == [kind |-> "num", v |-> n]

\* Decimal(str(value)).quantize(Decimal('0.01'), rounding=ROUND_HALF_UP) of
\* a number, in cents
ToCents(value) == RoundHalfUp(value.v, 10)

\* the attributes of Product the rows carry
ProductColumns == {"brand", "model_code", "price_regular", "price_discount_fx", "stock"}

\* nullable=False of the columns of Product
NotNullViolated(row) ==
    \/ row.brand = None
    \/ row.model_code = None
    \/ row.price_regular = None
    \/ row.stock = None

\* the flush of the rows the Session holds fails: an INSERT or an UPDATE
\* leaves a NOT NULL column without a value (IntegrityError); until the
\* Session is rolled back every later flush fails as well
FlushFails(rows) == \E id \in DOMAIN rows : NotNullViolated(rows[id])

\* the price add_or_update_battery_product stores for a value: None for
\* None and for a value that is not a decimal
PriceOrNone(value) == IF value.kind = "num" THEN Some(ToCents(value)) ELSE None

\* the loop over battery_data.items() on an existing entry: the entry with
\* every attribute the data names set
UpdatedEntry(entry, battery_data) ==
    [brand |-> IF "brand" \in DOMAIN battery_data
               THEN battery_data["brand"] ELSE entry.brand,
     model_code |-> IF "model_code" \in DOMAIN battery_data
                    THEN battery_data["model_code"] ELSE entry.model_code,
     price_regular |-> IF "price_regular" \in DOMAIN battery_data
                       THEN PriceOrNone(battery_data["price_regular"])
                       ELSE entry.price_regular,
     price_discount_fx |-> IF "price_discount_fx" \in DOMAIN battery_data
                           THEN PriceOrNone(battery_data["price_discount_fx"])
                           ELSE entry.price_discount_fx,
     stock |-> IF "stock" \in DOMAIN battery_data
               THEN battery_data["stock"] ELSE entry.stock]

\* Product(**init_data) as the INSERT writes it: an attribute the data does
\* not name is NULL, stock has default=0
NewProduct(battery_data) ==
    [brand |-> IF "brand" \in DOMAIN battery_data
               THEN battery_data["brand"] ELSE None,
     model_code |-> IF "model_code" \in DOMAIN battery_data
                    THEN battery_data["model_code"] ELSE None,
     price_regular |-> IF "price_regular" \in DOMAIN battery_data
                       THEN PriceOrNone(battery_data["price_regular"])
                       ELSE None,
     price_discount_fx |-> IF "price_discount_fx" \in DOMAIN battery_data
                           THEN PriceOrNone(battery_data["price_discount_fx"])
                           ELSE None,
     stock |-> IF "stock" \in DOMAIN battery_data /\ battery_data["stock"] # None
               THEN battery_data["stock"] ELSE Some(0)]

\* what add_or_update_battery_product returns
UpsertResult(ok, message) == [op |-> "add_or_update", ok |-> ok, message |-> message]

\* add_or_update_battery_product(session, battery_id, battery_data)
AddOrUpdateBatteryProduct(battery_id, battery_data) ==
    /\ LET exists == battery_id \in DOMAIN session_batteries
           staged == IF exists
                     THEN [session_batteries EXCEPT
                              ![battery_id] = UpdatedEntry(@, battery_data)]
                     ELSE (battery_id :> NewProduct(battery_data)) @@ session_batteries
       IN  IF battery_id = <<>>
           THEN /\ bat_result' = UpsertResult(FALSE, "Missing battery_id.")
                /\ UNCHANGED <<stored_batteries, session_batteries>>
           ELSE IF battery_data = EmptyDict
           THEN /\ bat_result' = UpsertResult(FALSE, "Missing or invalid battery_data.")
                /\ UNCHANGED <<stored_batteries, session_batteries>>
           ELSE IF FlushFails(session_batteries)
           THEN \* the query flushes what the Session holds; session.rollback()
                /\ bat_result' = UpsertResult(FALSE, "db_sqlalchemy_error")
                /\ session_batteries' = stored_batteries
                /\ UNCHANGED stored_batteries
           ELSE IF exists /\ staged = session_batteries
           THEN /\ bat_result' = UpsertResult(TRUE, "skipped_no_change")
                /\ UNCHANGED <<stored_batteries, session_batteries>>
           ELSE IF ~exists /\ ~(DOMAIN battery_data \subseteq ProductColumns)
           THEN \* Product(**init_data) raises TypeError; session.rollback()
                /\ bat_result' = UpsertResult(FALSE, "db_unexpected_error")
                /\ session_batteries' = stored_batteries
                /\ UNCHANGED stored_batteries
           ELSE IF FlushFails(staged)
           THEN \* session.commit() raises IntegrityError; session.rollback()
                /\ bat_result' = UpsertResult(FALSE, "db_sqlalchemy_error")
                /\ session_batteries' = stored_batteries
                /\ UNCHANGED stored_batteries
           ELSE /\ bat_result' = UpsertResult(TRUE, IF exists THEN "updated"
                                                    ELSE "added_new")
                /\ stored_batteries' = staged
                /\ session_batteries' = staged
    /\ UNCHANGED <<resolver_vars, battery_links, makes_cache, now, financing_vars,
                   alias_vars,
                   cache_vars>>

\* what update_battery_product_prices returns: the Optional row, or the
\* exception that leaves the function
PricesResult(raised, returned) == [op |-> "update_prices", raised |-> raised, returned |-> returned]

\* update_battery_product_prices(session, battery_product_id,
\* new_price_regular, new_price_discount_fx)
UpdateBatteryProductPrices(battery_product_id, new_price_regular, new_price_discount_fx) ==
    /\ IF battery_product_id = <<>>
       THEN /\ bat_result' = PricesResult(FALSE, None)
            /\ UNCHANGED <<stored_batteries, session_batteries>>
       ELSE IF FlushFails(session_batteries)
       THEN \* the query flushes what the Session holds and raises
            /\ bat_result' = PricesResult(TRUE, None)
            /\ UNCHANGED <<stored_batteries, session_batteries>>
       ELSE IF battery_product_id \notin DOMAIN session_batteries
       THEN /\ bat_result' = PricesResult(FALSE, None)
            /\ UNCHANGED <<stored_batteries, session_batteries>>
       ELSE IF new_price_regular.kind = "invalid"
       THEN \* Decimal(str(new_price_regular)) raises InvalidOperation
            /\ bat_result' = PricesResult(TRUE, None)
            /\ UNCHANGED <<stored_batteries, session_batteries>>
       ELSE LET battery_product == session_batteries[battery_product_id]
                priced == IF new_price_regular.kind = "num"
                          THEN [battery_product EXCEPT
                                   !.price_regular = Some(ToCents(new_price_regular))]
                          ELSE battery_product
                staged == IF new_price_discount_fx.kind = "num"
                          THEN [priced EXCEPT
                                   !.price_discount_fx = Some(ToCents(new_price_discount_fx))]
                          ELSE priced
            IN  IF new_price_discount_fx.kind = "invalid"
                THEN \* Decimal(str(new_price_discount_fx)) raises with the
                     \* regular price already set on the object
                     /\ bat_result' = PricesResult(TRUE, None)
                     /\ session_batteries' =
                           [session_batteries EXCEPT ![battery_product_id] = priced]
                     /\ UNCHANGED stored_batteries
                ELSE IF staged = battery_product
                THEN /\ bat_result' = PricesResult(FALSE, Some(battery_product))
                     /\ UNCHANGED <<stored_batteries, session_batteries>>
                ELSE LET rows == [session_batteries EXCEPT ![battery_product_id] = staged]
                     IN  IF FlushFails(rows)
                         THEN /\ bat_result' = PricesResult(FALSE, None)
                              /\ session_batteries' = stored_batteries
                              /\ UNCHANGED stored_batteries
                         ELSE /\ bat_result' = PricesResult(FALSE, Some(staged))
                              /\ stored_batteries' = rows
                              /\ session_batteries' = rows
    /\ UNCHANGED <<resolver_vars, battery_links, makes_cache, now, financing_vars,
                   alias_vars,
                   cache_vars>>

\* what update_battery_price_or_stock returns: updated, or the exception
\* that leaves the function
PriceOrStockResult(raised, updated) == [op |-> "update_price_or_stock", raised |-> raised, updated |-> updated]

\* the rows session.query(Product).filter(...) of update_battery_price_or_stock
\* selects
IdentifiedProducts(rows, identifier_type, identifier_value) ==
    IF identifier_type = "product_id"
    THEN {id \in DOMAIN rows : id = identifier_value}
    ELSE {id \in DOMAIN rows : /\ rows[id].model_code # None
                               /\ ILike(rows[id].model_code[1], identifier_value)}

\* update_battery_price_or_stock(session, identifier_type, identifier_value,
\* new_price, new_stock); .first() has no ORDER BY: any of the rows selected
UpdateBatteryPriceOrStock(identifier_type, identifier_value, new_price, new_stock) ==
    /\ IF identifier_type \notin {"product_id", "model_code"}
       THEN /\ bat_result' = PriceOrStockResult(FALSE, FALSE)
            /\ UNCHANGED <<stored_batteries, session_batteries>>
       ELSE IF FlushFails(session_batteries)
       THEN \* the query flushes what the Session holds and raises
            /\ bat_result' = PriceOrStockResult(TRUE, FALSE)
            /\ UNCHANGED <<stored_batteries, session_batteries>>
       ELSE IF IdentifiedProducts(session_batteries, identifier_type, identifier_value) = {}
       THEN /\ bat_result' = PriceOrStockResult(FALSE, FALSE)
            /\ UNCHANGED <<stored_batteries, session_batteries>>
       ELSE \E id \in IdentifiedProducts(session_batteries, identifier_type, identifier_value) :
               LET battery == session_batteries[id]
                   priced == IF new_price.kind = "num"
                             THEN [battery EXCEPT !.price_regular = Some(ToCents(new_price))]
                             ELSE battery
                   staged == IF new_stock.kind = "num"
                             THEN [priced EXCEPT !.stock = Some(new_stock.v)]
                             ELSE priced
               IN  IF new_price.kind = "invalid"
                   THEN /\ bat_result' = PriceOrStockResult(FALSE, FALSE)
                        /\ UNCHANGED <<stored_batteries, session_batteries>>
                   ELSE IF new_stock.kind = "invalid"
                   THEN \* return False with the price already set on the object
                        /\ bat_result' = PriceOrStockResult(FALSE, FALSE)
                        /\ session_batteries' = [session_batteries EXCEPT ![id] = priced]
                        /\ UNCHANGED stored_batteries
                   ELSE /\ bat_result' = PriceOrStockResult(FALSE, staged # battery)
                        /\ session_batteries' = [session_batteries EXCEPT ![id] = staged]
                        /\ UNCHANGED stored_batteries
    /\ UNCHANGED <<resolver_vars, battery_links, makes_cache, now, financing_vars,
                   alias_vars,
                   cache_vars>>

\* what update_battery_fields_by_brand_and_model returns: updated, with the
\* names of the fields of changes_dict when return_changes is set, or the
\* exception that leaves the function
FieldsResult(raised, updated, changes, return_changes) == [op |-> "update_fields", raised |-> raised, updated |-> updated, changes |-> IF return_changes THEN Some(changes) ELSE None]

\* the cast of new_value for field_name: <<typed_val>>, or <<>> when the
\* cast raises and the field is skipped
TypedValue(field_name, new_value) ==
    IF field_name \in {"price_regular", "price_discount_fx"}
    THEN IF new_value.kind = "num" THEN <<Some(ToCents(new_value))>>
         ELSE IF new_value.kind = "none" THEN <<None>>
         ELSE <<>>
    ELSE IF field_name = "stock"
    THEN IF new_value.kind = "num" THEN <<Some(new_value.v)>>
         ELSE IF new_value.kind = "none" THEN <<None>>
         ELSE <<>>
    ELSE <<new_value>>

\* the fields of fields_to_update the loop sets on the battery: not 'brand',
\* an attribute of Product, with a value that casts and differs
ChangedFields(battery, fields_to_update) ==
    {field_name \in (DOMAIN fields_to_update \cap ProductColumns) \ {"brand"} :
        /\ TypedValue(field_name, fields_to_update[field_name]) # <<>>
        /\ TypedValue(field_name, fields_to_update[field_name])[1] # battery[field_name]}

\* the battery after the loop over fields_to_update.items()
WithFields(battery, fields_to_update) ==
    [field_name \in DOMAIN battery |->
        IF field_name \in ChangedFields(battery, fields_to_update)
        THEN TypedValue(field_name, fields_to_update[field_name])[1]
        ELSE battery[field_name]]

\* the rows session.query(Product).filter(brand ilike, model_code ilike) selects
BrandAndModelProducts(rows, brand, model_code) ==
    {id \in DOMAIN rows : /\ rows[id].brand # None
                          /\ ILike(rows[id].brand[1], brand)
                          /\ rows[id].model_code # None
                          /\ ILike(rows[id].model_code[1], model_code)}

\* update_battery_fields_by_brand_and_model(session, brand, model_code,
\* fields_to_update, return_changes); .first() has no ORDER BY
UpdateBatteryFieldsByBrandAndModel(brand, model_code, fields_to_update, return_changes) ==
    /\ IF brand = <<>> \/ model_code = <<>>
       THEN /\ bat_result' = FieldsResult(FALSE, FALSE, {}, return_changes)
            /\ UNCHANGED <<stored_batteries, session_batteries>>
       ELSE IF FlushFails(session_batteries)
       THEN \* the query flushes what the Session holds and raises
            /\ bat_result' = FieldsResult(TRUE, FALSE, {}, FALSE)
            /\ UNCHANGED <<stored_batteries, session_batteries>>
       ELSE IF BrandAndModelProducts(session_batteries, brand, model_code) = {}
               \/ fields_to_update = EmptyDict
       THEN /\ bat_result' = FieldsResult(FALSE, FALSE, {}, return_changes)
            /\ UNCHANGED <<stored_batteries, session_batteries>>
       ELSE \E id \in BrandAndModelProducts(session_batteries, brand, model_code) :
               LET battery == session_batteries[id]
                   changes == ChangedFields(battery, fields_to_update)
               IN  /\ bat_result' = FieldsResult(FALSE, changes # {}, changes,
                                                 return_changes)
                   /\ session_batteries' =
                         [session_batteries EXCEPT
                             ![id] = WithFields(battery, fields_to_update)]
                   /\ UNCHANGED stored_batteries
    /\ UNCHANGED <<resolver_vars, battery_links, makes_cache, now, financing_vars,
                   alias_vars,
                   cache_vars>>

\* the values given for a regular price: None, 'abc', -0.50 and 12.345
PriceValues == {PyNone, PyInvalid, PyNum(-500), PyNum(12345)}

\* the values given for a discounted price: None, 'abc' and 110.00
DiscountValues == {PyNone, PyInvalid, PyNum(110000)}

\* the values given for a stock: None, 'abc' and 5
StockValues == {PyNone, PyInvalid, PyNum(5)}

\* the battery_data of the calls of add_or_update_battery_product
BatteryDatas ==
    {EmptyDict}
    \cup {[price_regular |-> v] : v \in PriceValues}
    \cup {[brand |-> Some(<<"D","u","n","c","a","n">>), model_code |-> Some(<<"D","-","2","4","R">>),
           price_regular |-> v, stock |-> Some(5)] : v \in PriceValues \ {PyNone}}
    \cup {[brand |-> Some(<<"D","u","n","c","a","n">>), model_code |-> Some(<<"D","-","2","4","R">>)],
          [price_regular |-> PyNum(12345), price_discount_fx |-> PyInvalid],
          [price_regular |-> PyNum(12345), color |-> Some(<<"r","e","d">>)]}

\* the calls of add_or_update_battery_product: the complete rows are given
\* for the second id
UpsertCalls ==
    {<<id, data>> \in (ProductIds \cup {<<>>}) \X BatteryDatas :
        "brand" \in DOMAIN data => id = <<"b","2">>}

\* the identifiers of the calls of update_battery_price_or_stock
Identifiers ==
    {<<"product_id", <<"b","1">>>>, <<"product_id", <<"b","2">>>>,
     <<"model_code", <<"f","2","2","n","f","-","7","5","0">>>>, <<"model_code", <<"%">>>>,
     <<"sku", <<"b","1">>>>}

\* the fields_to_update of the calls of update_battery_fields_by_brand_and_model
FieldsToUpdate ==
    {EmptyDict}
    \cup {[price_regular |-> v] : v \in PriceValues}
    \cup {[brand |-> PyNone, stock |-> v] : v \in StockValues}
    \cup {[price_discount_fx |-> PyNone, color |-> PyNone]}

\* the brand and model_code of the calls of
\* update_battery_fields_by_brand_and_model
BrandsAndModels ==
    {<<<<>>, <<"d","-","2","4","r">>>>,
     <<<<"f","u","l","g","o","r">>, <<"F","2","2","N","F","-","7","5","0">>>>,
     <<<<"%">>, <<"d","-","2","4","r">>>>}

NextBat ==
    \/ \E call \in UpsertCalls : AddOrUpdateBatteryProduct(call[1], call[2])
    \/ \E battery_product_id \in ProductIds \cup {<<>>},
          new_price_regular \in PriceValues,
          new_price_discount_fx \in DiscountValues :
          UpdateBatteryProductPrices(battery_product_id, new_price_regular,
                                     new_price_discount_fx)
    \/ \E identifier \in Identifiers, new_price \in PriceValues,
          new_stock \in StockValues :
          UpdateBatteryPriceOrStock(identifier[1], identifier[2], new_price, new_stock)
    \/ \E battery \in BrandsAndModels, fields_to_update \in FieldsToUpdate,
          return_changes \in BOOLEAN :
          UpdateBatteryFieldsByBrandAndModel(battery[1], battery[2], fields_to_update,
                                             return_changes)

\* the state at import with one battery stored and a Session without changes
InitBat ==
    /\ Init
    /\ \A id \in FitmentIds : battery_links[id] = {} \/ id \in {1, 5, 6, 7}

SpecBat == InitBat /\ [][NextBat]_vars

---------------------------------------------------------------------------
(* _get_all_makes_cached, statement by statement, called from several      *)
(* threads. No lock is taken: between any two statements of one caller the *)
(* other callers, the clock and the table may move.                        *)

\* calls of _get_all_makes_cached, of all callers together
MaxCalls == 3

\* offsets of the clock readings from the time of import
TimeOffsets == {0, 3599, 3600}

Times == {StartTime + d : d \in TimeOffsets}

\* what the distinct-makes query may return: no row, the makes of the
\* fitments, or a table with one make and a row without a make
MakeTables == {<<>>, DistinctMakeRows, <<<<>>, <<"R","A","M">>>>}

\* sorted([make[0] for make in results if make[0]], key=len, reverse=True)
MakesOf(results) == SortedByLenDesc(SelectSeq(results, LAMBDA m : m # <<>>))

\* the caller is inside _get_all_makes_cached
Active(c) == callers[c].pc \notin {"idle", "done"}

RECURSIVE CallsOf(_)
\* the calls the callers cs have begun so far
CallsOf(cs) ==
    IF cs = {} THEN 0
    ELSE LET c == CHOOSE c \in cs : TRUE
         IN  callers[c].calls + CallsOf(cs \ {c})

\* current_time = time.time(): the call begins
StartCall(c) ==
    /\ ~Active(c)
    /\ CallsOf(Callers) < MaxCalls
    /\ callers' =
          [d \in Callers |->
              IF d = c
              THEN [IdleCaller EXCEPT
                       !.pc = "check_data",
                       !.current_time = now,
                       !.alone = \A e \in Callers \ {c} : ~Active(e),
                       !.before = makes_cache,
                       !.calls = callers[c].calls + 1]
              ELSE IF Active(d) THEN [callers[d] EXCEPT !.alone = FALSE]
              ELSE callers[d]]
    /\ UNCHANGED <<resolver_vars, battery_links, makes_cache, now, financing_vars,
                   alias_vars, battery_vars, makes_table, cache_origin>>

\* if _vehicle_makes_cache["data"] and ...: the left operand; None and the
\* empty list are falsy
CheckData(c) ==
    /\ callers[c].pc = "check_data"
    /\ callers' =
          [callers EXCEPT ![c].pc =
              IF makes_cache.data # None /\ makes_cache.data[1] # <<>>
              THEN "check_timestamp" ELSE "query"]
    /\ UNCHANGED <<resolver_vars, battery_links, makes_cache, now, financing_vars,
                   alias_vars, battery_vars, makes_table, cache_origin>>

\* ... and (current_time - timestamp < CACHE_DURATION_SECONDS): the right
\* operand
CheckTimestamp(c) ==
    /\ callers[c].pc = "check_timestamp"
    /\ callers' =
          [callers EXCEPT ![c].pc =
              IF callers[c].current_time - makes_cache.timestamp
                    < CACHE_DURATION_SECONDS
              THEN "return_cached" ELSE "query"]
    /\ UNCHANGED <<resolver_vars, battery_links, makes_cache, now, financing_vars,
                   alias_vars, battery_vars, makes_table, cache_origin>>

\* return _vehicle_makes_cache["data"]: the list the cache holds now
ReturnCached(c) ==
    /\ callers[c].pc = "return_cached"
    /\ callers' = [callers EXCEPT ![c].pc = "done",
                                  ![c].returned = makes_cache.data]
    /\ UNCHANGED <<resolver_vars, battery_links, makes_cache, now, financing_vars,
                   alias_vars, battery_vars, makes_table, cache_origin>>

\* a variant of the query that waits while another caller is writing the
\* cache, as under a lock around the refresh
QueryMakesUnderLock(c, db_fails) ==
    /\ callers[c].pc = "query"
    /\ \A d \in Callers \ {c} : callers[d].pc \notin {"store_data", "store_timestamp"}
    /\ callers' =
          IF db_fails
          THEN [callers EXCEPT ![c].pc = "done",
                               ![c].queried = TRUE,
                               ![c].returned = Some(<<>>)]
          ELSE [callers EXCEPT ![c].pc = "store_data",
                               ![c].queried = TRUE,
                               ![c].makes = MakesOf(makes_table),
                               ![c].read_at = now]
    /\ UNCHANGED <<resolver_vars, battery_links, makes_cache, now, financing_vars,
                   alias_vars, battery_vars, makes_table, cache_origin>>

\* the distinct-makes query and the sorting of its rows; db_fails: the query
\* raises, the exception is logged and [] is returned
QueryMakes(c, db_fails) ==
    /\ callers[c].pc = "query"
    /\ callers' =
          IF db_fails
          THEN [callers EXCEPT ![c].pc = "done",
                               ![c].queried = TRUE,
                               ![c].returned = Some(<<>>)]
          ELSE [callers EXCEPT ![c].pc = "store_data",
                               ![c].queried = TRUE,
                               ![c].makes = MakesOf(makes_table),
                               ![c].read_at = now]
    /\ UNCHANGED <<resolver_vars, battery_links, makes_cache, now, financing_vars,
                   alias_vars, battery_vars, makes_table, cache_origin>>

\* _vehicle_makes_cache["data"] = makes
StoreData(c) ==
    /\ callers[c].pc = "store_data"
    /\ makes_cache' = [makes_cache EXCEPT !.data = Some(callers[c].makes)]
    /\ cache_origin' = [started |-> callers[c].current_time,
                        read_at |-> callers[c].read_at]
    /\ callers' = [callers EXCEPT ![c].pc = "store_timestamp",
                                  ![c].stored = TRUE]
    /\ UNCHANGED <<resolver_vars, battery_links, now, financing_vars, alias_vars,
                   battery_vars, makes_table>>

\* _vehicle_makes_cache["timestamp"] = current_time; return makes
StoreTimestamp(c) ==
    /\ callers[c].pc = "store_timestamp"
    /\ makes_cache' = [makes_cache EXCEPT !.timestamp = callers[c].current_time]
    /\ callers' = [callers EXCEPT ![c].pc = "done",
                                  ![c].returned = Some(callers[c].makes)]
    /\ UNCHANGED <<resolver_vars, battery_links, now, financing_vars, alias_vars,
                   battery_vars, makes_table, cache_origin>>

\* the next statement of a caller inside the function
CallerStep(c) ==
    \/ CheckData(c)
    \/ CheckTimestamp(c)
    \/ ReturnCached(c)
    \/ \E db_fails \in BOOLEAN : QueryMakes(c, db_fails)
    \/ StoreData(c)
    \/ StoreTimestamp(c)

\* time.time() moves on
Tick(t) ==
    /\ t > now
    /\ now' = t
    /\ UNCHANGED <<resolver_vars, battery_links, makes_cache, financing_vars,
                   alias_vars, battery_vars, cache_vars>>

\* fitments are added to or removed from the table by other code
ChangeTable(rows) ==
    /\ rows # makes_table
    /\ makes_table' = rows
    /\ UNCHANGED <<resolver_vars, battery_links, makes_cache, now, financing_vars,
                   alias_vars, battery_vars, callers, cache_origin>>

NextCache ==
    \/ \E c \in Callers : StartCall(c)
    \/ \E c \in Callers : CheckData(c)
    \/ \E c \in Callers : CheckTimestamp(c)
    \/ \E c \in Callers : ReturnCached(c)
    \/ \E c \in Callers : \E db_fails \in BOOLEAN : QueryMakes(c, db_fails)
    \/ \E c \in Callers : StoreData(c)
    \/ \E c \in Callers : StoreTimestamp(c)
    \/ \E t \in Times : Tick(t)
    \/ \E rows \in MakeTables : ChangeTable(rows)

InitCache ==
    /\ Init
    /\ \A id \in FitmentIds : battery_links[id] = {} \/ id \in {1, 5, 6, 7}

SpecCache == InitCache /\ [][NextCache]_vars

---------------------------------------------------------------------------
(* The make normalizer and the alias scan on their own.                    *)

AliasKeys == {MAKE_ALIASES[i][1] : i \in DOMAIN MAKE_ALIASES}

CanonicalMakes == {MAKE_ALIASES[i][2] : i \in DOMAIN MAKE_ALIASES}

\* the makes handed to the normalizer: every alias, every canonical make, an
\* alias in mixed case and a make the table does not know
NormalizerInputs ==
    AliasKeys \cup CanonicalMakes \cup {<<"T","o","y","o","t","a">>, <<"L","a","n","d"," ","R","o","v","e","r">>, <<"T","E","S","L","A">>}

\* the words the scanned queries are made of
ScanWords ==
    { <<"a","l","f","a">>, <<"A","l","f","a"," ","R","o","m","e","o">>, <<"l","a","n","d"," ","r","o","v","e","r">>, <<"L","A","N","D","R","O","V","E","R">>, <<"r","o","v","e","r">>,
      <<"f","o","r","d">>, <<"f","i","a","t">>, <<"t","o","y","o","t","a">>, <<"c","h","i","n","o","s">>, <<"b","a","t","e","r","i","a">>, <<"1","5","6">>,
      <<"p","r","o","g","r","a","m","a">> }

\* the queries handed to the alias scan: one word, or two with a space between
ScanQueries ==
    ScanWords \cup {w1 \o <<" ">> \o w2 : w1 \in ScanWords, w2 \in ScanWords}

\* the normalizer is applied to the make, then to what it gave
MaxNormalizations == 2

NormalizeStep ==
    /\ Len(make_text.values) < MaxNormalizations
    /\ make_text' =
          [make_text EXCEPT !.values =
              Append(@, NormalizeMake(IF make_text.values = <<>>
                                      THEN make_text.input
                                      ELSE make_text.values[Len(make_text.values)]))]
    /\ UNCHANGED <<resolver_vars, battery_links, makes_cache, now, financing_vars, scan,
                   battery_vars,
                   cache_vars>>

\* _find_make_from_query(db_session, scan.query), the makes read without a
\* failure
ScanQuery ==
    /\ "found" \notin DOMAIN scan
    /\ LET all_makes == GetAllMakesCached(makes_cache, now, FALSE).makes
       IN  \E fuzzy_reply \in FuzzyReplies(all_makes) :
              scan' = [query |-> scan.query,
                       found |-> FindMakeFromQuery(scan.query, all_makes,
                                                   fuzzy_reply).make]
    /\ UNCHANGED <<resolver_vars, battery_links, makes_cache, now, financing_vars,
                   make_text, battery_vars,
                   cache_vars>>

NextAlias ==
    \/ NormalizeStep
    \/ ScanQuery

\* a make for the normalizer, or a query for the scan
InitAlias ==
    /\ InitProgram
    /\ \A id \in FitmentIds : battery_links[id] = {} \/ id \in {1, 5, 6, 7}
    /\ \/ /\ make_text \in {[input |-> x, values |-> <<>>] : x \in NormalizerInputs}
          /\ scan = [query |-> <<>>, found |-> None]
       \/ /\ make_text = [input |-> <<>>, values |-> <<>>]
          /\ scan \in {[query |-> q] : q \in ScanQueries}

SpecAlias == InitAlias /\ [][NextAlias]_vars

---------------------------------------------------------------------------
(* Properties of find_batteries_for_vehicle.                               *)

\* the call has returned a dictionary
Returned == pc = "done"

HasStatus(r) == "status" \in DOMAIN r

StatusIs(r, s) == HasStatus(r) /\ r.status = s

\* the fallback of Tier 2 has looked for a make in the current call
FallbackRan ==
    /\ pc \in {"reparse", "stage1", "stage2", "resolve", "done", "raised"}
    /\ parser_calls # <<>>
    /\ ~TierOneUsable(ai_parsed)

SameMake(a, b) == Lower(a) = Lower(b)

\* C1: when a make M was carried into the search (from the parser or from the
\* alias/fuzzy fallback), every fitment behind a success or a
\* clarification_needed result has a stored make equal to M, ignoring case.
MakeGuardrail ==
    (Returned /\ (StatusIs(result, "success") \/ StatusIs(result, "clarification_needed")))
        => \A i \in DOMAIN final_fitments :
              SameMake(Fitments[final_fitments[i]].vehicle_make, parsed_vehicle.make[1])

\* the fitment searches the current call has issued
FitmentSearches ==
    SelectSeq(repo_calls, LAMBDA c : c.op = "fitment_search")

\* neither the parser nor the alias/fuzzy fallback has given a make
NoMakeRecovered ==
    /\ ai_parsed = None \/ ~TruthyText(ai_parsed[1].make)
    /\ ~TruthyText(found_make)

\* C2: when the parser and the fallback have both run and neither gave a make,
\* the call returns not_found without a fitment search; and every fitment
\* search that is issued carries a make filter.
HardStopWithoutMake ==
    /\ (Returned /\ FallbackRan /\ NoMakeRecovered)
          => (StatusIs(result, "not_found") /\ FitmentSearches = <<>>)
    /\ \A i \in DOMAIN FitmentSearches :
          TruthyText(FitmentSearches[i].filter[1].make)

HardStopWitness ==
    /\ Returned /\ FallbackRan /\ NoMakeRecovered
    /\ best_match # None
    /\ result = NotFound(MSG_NO_VEHICLE)

\* C3: whatever the input, the value returned has a status, and the status is
\* success, clarification_needed or not_found.
ResultHasKnownStatus ==
    Returned =>
        /\ HasStatus(result)
        /\ result.status \in {"success", "clarification_needed", "not_found"}

\* C4: the empty query returns not_found, and neither the parser nor the
\* repository is invoked.
EmptyQueryNotFound ==
    (Returned /\ user_query = <<>>)
        => /\ StatusIs(result, "not_found")
           /\ parser_calls = <<>>
           /\ repo_calls = <<>>

\* the sets of linked battery ids of the final fitments
FinalBatterySets == {BatteryIdSet(battery_links, id) : id \in Range(final_fitments)}

\* the model codes of the batteries of a set of ids
ModelCodes(ids) == {b.model_code : b \in {c \in Range(Batteries) : c.id \in ids}}

\* the battery list is exactly the batteries of ids, each once
ListsExactly(battery_list, ids) ==
    /\ Len(battery_list) = Cardinality(ids)
    /\ {battery_list[i].model_code : i \in DOMAIN battery_list} = ModelCodes(ids)

\* C5: two or more final fitments that all have the same, non-empty set of
\* linked batteries give success with one vehicle key, whose battery list is
\* that set, each battery once.
MergeIdenticalSets ==
    (/\ Returned
     /\ Len(final_fitments) >= 2
     /\ Cardinality(FinalBatterySets) = 1
     /\ {} \notin FinalBatterySets)
        => /\ StatusIs(result, "success")
           /\ Cardinality(DOMAIN result.results) = 1
           /\ \A key \in DOMAIN result.results :
                 \A ids \in FinalBatterySets : ListsExactly(result.results[key], ids)

MergeWitness ==
    /\ Returned
    /\ Len(final_fitments) >= 2
    /\ FinalBatterySets = {{"b1", "b2"}}
    /\ StatusIs(result, "success")

\* C6 as claimed: two or more final fitments whose battery sets are not all
\* equal, or of which at least one (possibly every one) has no linked battery,
\* give clarification_needed.
ClarifyAsClaimed ==
    (/\ Returned
     /\ Len(final_fitments) >= 2
     /\ (Cardinality(FinalBatterySets) > 1 \/ {} \in FinalBatterySets))
        => StatusIs(result, "clarification_needed")

\* C6 as amended: two or more final fitments of which at least one has a
\* linked battery give clarification_needed when their battery sets are not
\* all equal (one of them may have none); when none of them has a linked
\* battery the result is not_found with the message for missing batteries.
ClarifyUnlessAllEmpty ==
    (Returned /\ Len(final_fitments) >= 2)
        => /\ Cardinality(FinalBatterySets) > 1
                => StatusIs(result, "clarification_needed")
           /\ FinalBatterySets = {{}}
                => result = NotFound(MSG_NO_BATTERIES)

ClarifyWitness ==
    /\ Returned
    /\ Len(final_fitments) >= 2
    /\ {} \in FinalBatterySets
    /\ Cardinality(FinalBatterySets) > 1
    /\ StatusIs(result, "clarification_needed")

\* C7: one final fitment gives success with all its linked batteries when it
\* has any, and otherwise not_found with the message for missing batteries,
\* which is neither of the other two not_found messages.
SingleCandidate ==
    /\ (Returned /\ Len(final_fitments) = 1)
          => LET ids == BatteryIdSet(battery_links, final_fitments[1])
             IN  IF ids # {}
                 THEN /\ StatusIs(result, "success")
                      /\ \A key \in DOMAIN result.results :
                            ListsExactly(result.results[key], ids)
                 ELSE result = NotFound(MSG_NO_BATTERIES)
    /\ MSG_NO_BATTERIES \notin {MSG_NO_VEHICLE, MSG_NO_INFORMATION}

SingleCandidateWitness ==
    /\ Returned
    /\ Len(final_fitments) = 1
    /\ BatteryIdSet(battery_links, final_fitments[1]) = {}
    /\ result = NotFound(MSG_NO_BATTERIES)

\* Stage 2 has produced final_fitments
StageTwoDone == pc = "resolve"

\* the engine keywords of the query are all in the text of the fitment
MatchesEngine(id) ==
    \A kw \in WordSet(Lower(parsed_vehicle.engine_details[1])) :
        Contains(SearchableText(Fitments[id]), kw)

\* C8: the fitments after Stage 2 are among those of Stage 1, are not empty
\* when Stage 1 found any, and are all those of Stage 1 when the engine
\* filter ran and matched none.
StageTwoNonDestructive ==
    StageTwoDone =>
        /\ Range(final_fitments) \subseteq Range(candidate_fitments)
        /\ candidate_fitments # <<>> => final_fitments # <<>>
        /\ (/\ Len(candidate_fitments) > 1
            /\ TruthyText(parsed_vehicle.engine_details)
            /\ \A id \in Range(candidate_fitments) : ~MatchesEngine(id))
              => final_fitments = candidate_fitments

StageTwoWitness ==
    /\ StageTwoDone
    /\ Len(candidate_fitments) > 1
    /\ TruthyText(parsed_vehicle.engine_details)
    /\ \A id \in Range(candidate_fitments) : ~MatchesEngine(id)
    /\ final_fitments = candidate_fitments

\* Stage 1 has produced candidate_fitments
StageOneDone == pc = "stage2"

\* the make and the year of the fitment pass the filters of the search
PassesMakeAndYear(id) ==
    /\ ILike(Fitments[id].vehicle_make, parsed_vehicle.make[1])
    /\ TruthyInt(parsed_vehicle.year) =>
          /\ Fitments[id].year_start <= parsed_vehicle.year[1]
          /\ (Fitments[id].year_end = None
              \/ Fitments[id].year_end[1] >= parsed_vehicle.year[1])

\* the keywords of the parsed model: the parts between spaces and hyphens
\* that are longer than one character
ParsedModelKeywords ==
    IF TruthyText(parsed_vehicle.model)
    THEN Range(ModelKeywords(parsed_vehicle.model[1])) ELSE {}

\* C18: when the parsed model has several keywords, a fitment of the right
\* make (and year) whose stored model contains at least one of them as a
\* whole word is a Stage 1 candidate: the keywords are alternatives.
ModelKeywordsAreAlternatives ==
    (StageOneDone /\ Cardinality(ParsedModelKeywords) > 1) =>
        \A id \in FitmentIds :
            (/\ PassesMakeAndYear(id)
             /\ \E kw \in ParsedModelKeywords :
                   WordMatch(Fitments[id].vehicle_model, kw))
                => id \in Range(candidate_fitments)

\* the make of the fitment is the make of the search and its model contains
\* every keyword of the parsed model
RightMakeAndModel(id) ==
    /\ ILike(Fitments[id].vehicle_make, parsed_vehicle.make[1])
    /\ \A kw \in ParsedModelKeywords : WordMatch(Fitments[id].vehicle_model, kw)

\* the years of the fitment hold the year y; an open year_end holds every
\* later year
YearsHold(id, y) ==
    /\ Fitments[id].year_start <= y
    /\ (Fitments[id].year_end = None \/ Fitments[id].year_end[1] >= y)

\* C19: when a year y is parsed, every Stage 1 candidate has year_start <= y
\* and a year_end that is open or >= y, and every fitment of the right make
\* and model with an open year_end and year_start <= y is a candidate.
StageOneYearFilter ==
    (StageOneDone /\ TruthyInt(parsed_vehicle.year)) =>
        /\ \A id \in Range(candidate_fitments) : YearsHold(id, parsed_vehicle.year[1])
        /\ \A id \in FitmentIds :
              (/\ RightMakeAndModel(id)
               /\ Fitments[id].year_end = None
               /\ Fitments[id].year_start <= parsed_vehicle.year[1])
                  => id \in Range(candidate_fitments)

\* a search for a year that keeps a fitment with an open year_end and leaves
\* out a fitment of the same make and model whose years have ended
StageOneYearWitness ==
    /\ StageOneDone
    /\ TruthyInt(parsed_vehicle.year)
    /\ \E id \in Range(candidate_fitments) : Fitments[id].year_end = None
    /\ \E id \in FitmentIds \ Range(candidate_fitments) :
          RightMakeAndModel(id) /\ ~YearsHold(id, parsed_vehicle.year[1])

\* Stage 2 filters: Stage 1 returned more than one candidate and
\* engine_details was parsed
StageTwoRuns ==
    Len(candidate_fitments) > 1 /\ TruthyText(parsed_vehicle.engine_details)

\* C20 as stated: when Stage 1 returned more than one candidate and
\* engine_details was parsed, every fitment kept has all the engine keywords
\* in its model, engine_details and notes; otherwise the candidates pass
\* through unchanged.
StageTwoKeepsOnlyMatches ==
    StageTwoDone =>
        IF StageTwoRuns
        THEN /\ Range(final_fitments) \subseteq Range(candidate_fitments)
             /\ \A id \in Range(final_fitments) : MatchesEngine(id)
        ELSE final_fitments = candidate_fitments

\* C20, amended: as stated, unless no candidate has all the engine keywords,
\* when the candidates pass through unchanged as well.
StageTwoRunsIff ==
    StageTwoDone =>
        IF StageTwoRuns /\ \E id \in Range(candidate_fitments) : MatchesEngine(id)
        THEN /\ Range(final_fitments) \subseteq Range(candidate_fitments)
             /\ \A id \in Range(final_fitments) : MatchesEngine(id)
        ELSE final_fitments = candidate_fitments

\* Stage 2 ran with several engine keywords and dropped a candidate that has
\* one of them but not all
StageTwoRunsWitness ==
    /\ StageTwoDone
    /\ StageTwoRuns
    /\ Cardinality(WordSet(Lower(parsed_vehicle.engine_details[1]))) > 1
    /\ final_fitments # <<>>
    /\ \E id \in Range(candidate_fitments) \ Range(final_fitments) :
          \E kw \in WordSet(Lower(parsed_vehicle.engine_details[1])) :
              Contains(SearchableText(Fitments[id]), kw)

\* two fitments remain after Stage 2 and their battery sets differ
TwoCandidatesDiffer ==
    /\ Returned
    /\ Len(final_fitments) = 2
    /\ BatteryIdSet(battery_links, final_fitments[1])
          # BatteryIdSet(battery_links, final_fitments[2])

\* C21 as stated: two final fitments with differing battery sets give
\* clarification_needed with exactly two distinct options, the option of the
\* first candidate and then the option of the second.
TwoOptionsAsClaimed ==
    TwoCandidatesDiffer =>
        /\ StatusIs(result, "clarification_needed")
        /\ Len(result.options) = 2
        /\ result.options[1] # result.options[2]
        /\ result.options[1] = OptionKey(Fitments[final_fitments[1]])
        /\ result.options[2] = OptionKey(Fitments[final_fitments[2]])

\* C21, amended: two final fitments with differing battery sets give
\* clarification_needed; the options are the option strings of the two
\* candidates in the order the candidates were found, two distinct strings
\* when the candidates render differently and a single one when both render
\* the same string.
TwoOptionsUnlessSameRendering ==
    TwoCandidatesDiffer =>
        LET first == OptionKey(Fitments[final_fitments[1]])
            second == OptionKey(Fitments[final_fitments[2]])
        IN  /\ StatusIs(result, "clarification_needed")
            /\ result.options = IF first = second THEN <<first>> ELSE <<first, second>>

\* two candidates with differing battery sets and different option strings
TwoOptionsWitness ==
    /\ TwoCandidatesDiffer
    /\ StatusIs(result, "clarification_needed")
    /\ Len(result.options) = 2
    /\ result.options[1] # result.options[2]

\* the call returned the merged description of several final fitments
MergedReturned ==
    /\ Returned
    /\ Len(final_fitments) >= 2
    /\ StatusIs(result, "success")

\* the year_end of the group that ends last, an open year_end (None) being
\* later than any year
LatestYearEnd(ids) ==
    IF \E id \in ids : Fitments[id].year_end = None
    THEN None
    ELSE Some(Max({Fitments[id].year_end[1] : id \in ids}))

\* C22: the vehicle key of a merged result names the make of the fitments,
\* every distinct model once, the least year_start and the latest year_end of
\* the group, an open year_end being later than any year: the range of the
\* key covers the range of every merged fitment.
MergedDescriptionCoversGroup ==
    MergedReturned =>
        LET ids == Range(final_fitments)
            model_str == JoinWith(<<" ","/"," ">>,
                                  SortedTexts({Fitments[id].vehicle_model : id \in ids}))
            year_range == YearRange(Min({Fitments[id].year_start : id \in ids}),
                                    LatestYearEnd(ids))
        IN  \E id \in ids :
               DOMAIN result.results =
                   {VehicleKey(Fitments[id].vehicle_make, model_str, year_range)}

\* no alias of the table is a substring of the lower-cased query
NoAliasInQuery ==
    \A i \in DOMAIN MAKE_ALIASES : ~Contains(Lower(user_query), MAKE_ALIASES[i][1])

\* C9: when no alias is in the query, the fallback gives the best match as
\* the make exactly when its score is at least 85 (85 is taken, 84 is not);
\* without a make the call returns not_found.
FuzzyThreshold ==
    (FallbackRan /\ NoAliasInQuery)
        => /\ (best_match # None /\ best_match[1][2] >= 85)
                => found_make = Some(best_match[1][1])
           /\ (best_match = None \/ best_match[1][2] <= 84)
                => /\ found_make = None
                   /\ Returned
                   /\ StatusIs(result, "not_found")

FuzzyThresholdWitness ==
    /\ FallbackRan /\ NoAliasInQuery
    /\ best_match # None
    /\ best_match[1][2] = 85
    /\ found_make = Some(best_match[1][1])

\* the reply the Tier 1 parser call got
TierOneReply == parser_calls[1].reply[1]

\* the chat completion raised (an error, a timeout) or its content is
\* malformed: no JSON, or JSON without one of the four keys
ParserFailed(reply) ==
    \/ reply.kind \in {"raises", "not_json"}
    \/ ~(ParserKeys \subseteq DOMAIN reply.json)

\* the chat completion returned well-formed JSON without a make
ParserGaveNoMake(reply) ==
    /\ ~ParserFailed(reply)
    /\ ~TruthyText(reply.json.make)

\* the fallback asked the parser a second time and that call failed totally
ReparseFailedTotally ==
    /\ Len(parser_calls) = 2
    /\ parser_calls[2].reply # None
    /\ ParserFailed(parser_calls[2].reply[1])

\* C28: in the fallback, when the second parser call fails totally, model,
\* year and engine_details are all absent and the Stage 1 search is filtered
\* by the recovered make alone.
FailedReparseIsAllNull ==
    (ReparseFailedTotally /\ StageOneDone) =>
        /\ ~TruthyText(parsed_vehicle.model)
        /\ ~TruthyInt(parsed_vehicle.year)
        /\ ~TruthyText(parsed_vehicle.engine_details)
        /\ repo_calls[Len(repo_calls)]
              = RepoCall("fitment_search",
                         Some([make |-> found_make,
                               model_keywords |-> <<>>,
                               year |-> None]))

\* C15: a parser that raises, times out or returns malformed output yields no
\* result; then, and when it returns no make, nothing is returned or raised
\* by Tier 1 itself and the call goes on to the alias/fuzzy fallback, whose
\* make is the one of the first alias in the query or else the accepted best
\* fuzzy match, and is the make carried into the search.
ParserFailureTolerated ==
    parser_calls # <<>> =>
        /\ ParserFailed(TierOneReply) => ai_parsed = None
        /\ (ParserFailed(TierOneReply) \/ ParserGaveNoMake(TierOneReply))
              => /\ pc = "tier2" => result = EmptyDict
                 /\ (pc = "reparse" \/ (pc = "done" /\ found_make = None))
                       => found_make =
                             (IF FirstAliasIn(Lower(user_query)) # None
                              THEN Some(FirstAliasIn(Lower(user_query))[1][2])
                              ELSE FuzzyAccept(best_match))
                 /\ (pc # "tier2" /\ found_make = None)
                       => pc = "done" /\ result = NotFound(MSG_NO_VEHICLE)
                 /\ pc \in {"stage1", "stage2", "resolve"}
                       => found_make # None /\ parsed_vehicle.make = found_make
                 /\ pc = "raised"
                       => repo_calls[Len(repo_calls)].op = "fitment_batteries"

ParserFailureWitness ==
    /\ parser_calls # <<>>
    /\ TierOneReply.kind = "raises"
    /\ Returned
    /\ StatusIs(result, "success")

---------------------------------------------------------------------------
(* Properties of get_cashea_financing_options.                             *)

Abs(x) == IF x >= 0 THEN x ELSE -x

\* c, in thousandths, is a whole number of cents and the one nearest to
\* num / den thousandths, a tie going away from zero
IsRoundedHalfUp(c, num, den) ==
    /\ c % 10 = 0
    /\ 2 * Abs(num - c * den) <= 10 * den
    /\ 2 * Abs(num - c * den) = 10 * den => Abs(c * den) > Abs(num)

\* the last call was get_cashea_financing_options, with the foreign-currency
\* flag set, and it found a rule whose discount fraction is above zero
DiscountedCall ==
    /\ fin_call.op = "get"
    /\ fin_call.apply_discount
    /\ fin_call.product_price # None
    /\ fin_call.rule # None
    /\ fin_call.rule[1].provider_discount_percentage # None
    /\ fin_call.rule[1].provider_discount_percentage[1] > 0

\* C10: with the foreign-currency flag set and a discount fraction above
\* zero, the discount is the original price times the discount fraction,
\* rounded half up to cents, and the initial payment is the price less that
\* discount times the initial fraction, rounded half up to cents; 100.00 with
\* initial 0.30, discount 0.10 and 3 installments gives 10.00, 90.00, 27.00
\* and 21.00.
FinancingOrderOfOperations ==
    DiscountedCall =>
        LET price == fin_call.product_price[1]
            rule == fin_call.rule[1]
            plan == fin_result.financing_plan
        IN  /\ fin_result.status = "success"
            /\ IsRoundedHalfUp(plan.total_discount_amount,
                               price * rule.provider_discount_percentage[1], 10000)
            /\ IsRoundedHalfUp(plan.initial_payment,
                               (price - plan.total_discount_amount)
                                   * rule.initial_payment_percentage, 10000)
            /\ (/\ price = 100000
                /\ rule.initial_payment_percentage = 3000
                /\ rule.provider_discount_percentage[1] = 1000
                /\ rule.installments = 3)
                  => /\ plan.total_discount_amount = 10000
                     /\ plan.total_final_price = 90000
                     /\ plan.initial_payment = 27000
                     /\ plan.installment_amount = 21000

FinancingExampleWitness ==
    /\ DiscountedCall
    /\ fin_call.product_price = Some(100000)
    /\ fin_call.rule[1].initial_payment_percentage = 3000
    /\ fin_call.rule[1].provider_discount_percentage = Some(1000)
    /\ fin_call.rule[1].installments = 3
    /\ fin_result.financing_plan.total_discount_amount = 10000
    /\ fin_result.financing_plan.initial_payment = 27000

\* the last call was get_cashea_financing_options, it found a rule, and the
\* foreign-currency flag is false or the rule's discount fraction is zero or
\* absent
UndiscountedCall ==
    /\ fin_call.op = "get"
    /\ fin_call.product_price # None
    /\ fin_call.rule # None
    /\ \/ ~fin_call.apply_discount
       \/ fin_call.rule[1].provider_discount_percentage = None
       \/ fin_call.rule[1].provider_discount_percentage[1] = 0

\* C11: without the foreign-currency flag, or with a discount fraction that
\* is zero or absent, the plan reports a discount of 0.00 and 0 percent, its
\* total price is the base price (to the cent), and the initial payment is the
\* base price times the initial fraction, rounded half up to cents; 100.00
\* with initial 0.30 gives total 100.00 and initial 30.00.
FinancingWithoutDiscount ==
    UndiscountedCall =>
        LET price == fin_call.product_price[1]
            rule == fin_call.rule[1]
            plan == fin_result.financing_plan
        IN  /\ fin_result.status = "success"
            /\ plan.total_discount_amount = 0
            /\ plan.discount_applied_percent = 0
            /\ IsRoundedHalfUp(plan.total_final_price, price, 1)
            /\ price % 10 = 0 => plan.total_final_price = price
            /\ IsRoundedHalfUp(plan.initial_payment,
                               price * rule.initial_payment_percentage, 10000)
            /\ (price = 100000 /\ rule.initial_payment_percentage = 3000)
                  => plan.total_final_price = 100000 /\ plan.initial_payment = 30000

FinancingWithoutDiscountWitness ==
    /\ UndiscountedCall
    /\ ~fin_call.apply_discount
    /\ fin_call.product_price = Some(100000)
    /\ fin_call.rule[1].initial_payment_percentage = 3000
    /\ fin_call.rule[1].provider_discount_percentage = Some(1000)
    /\ fin_result.financing_plan.total_discount_amount = 0
    /\ fin_result.financing_plan.total_final_price = 100000
    /\ fin_result.financing_plan.initial_payment = 30000

\* the last call was get_cashea_financing_options
FinancingCalled == fin_call.op = "get"

\* no rule is stored for Cashea and the level of the last call
NoRuleForLevel == CasheaRules(financing_rules, fin_call.user_level) = {}

\* C12: get_cashea_financing_options always returns a result, with status
\* success or error; when no rule is stored for the level the result is an
\* error with a message and without a plan, and so is every other failure (a
\* price that is no number, a query that raises).
MissingRuleIsErrorResult ==
    FinancingCalled =>
        /\ HasStatus(fin_result)
        /\ fin_result.status \in {"success", "error"}
        /\ (NoRuleForLevel \/ fin_call.product_price = None \/ fin_call.db_fails)
              => /\ fin_result.status = "error"
                 /\ "message" \in DOMAIN fin_result
                 /\ "financing_plan" \notin DOMAIN fin_result
        /\ (NoRuleForLevel /\ fin_call.product_price # None /\ ~fin_call.db_fails)
              => fin_result.message = MSG_NO_RULE(fin_call.user_level)

MissingRuleWitness ==
    /\ FinancingCalled
    /\ NoRuleForLevel
    /\ financing_rules # <<>>
    /\ fin_call.product_price # None
    /\ ~fin_call.db_fails
    /\ fin_result = [status |-> "error", message |-> MSG_NO_RULE(fin_call.user_level)]

\* the last call was get_cashea_financing_options and it returned a plan
SuccessfulPlan ==
    /\ fin_call.op = "get"
    /\ StatusIs(fin_result, "success")

\* what is left to pay after the initial payment: the price less the
\* discount and the initial payment of the plan, in thousandths
RemainingOfPlan ==
    fin_call.product_price[1]
        - fin_result.financing_plan.total_discount_amount
        - fin_result.financing_plan.initial_payment

\* C24: with an installment count above zero the installment amount is the
\* remainder divided by the count, rounded half up to cents once (63.01 over
\* 3 gives 21.00, 63.02 over 3 gives 21.01); with a count of zero it is the
\* full remainder (to the cent).
InstallmentAmount ==
    SuccessfulPlan =>
        LET plan == fin_result.financing_plan
            count == fin_call.rule[1].installments
        IN  /\ plan.installments_count = count
            /\ count > 0 =>
                  /\ IsRoundedHalfUp(plan.installment_amount, RemainingOfPlan, count)
                  /\ (RemainingOfPlan = 63010 /\ count = 3)
                        => plan.installment_amount = 21000
                  /\ (RemainingOfPlan = 63020 /\ count = 3)
                        => plan.installment_amount = 21010
            /\ count = 0 =>
                  /\ IsRoundedHalfUp(plan.installment_amount, RemainingOfPlan, 1)
                  /\ RemainingOfPlan % 10 = 0
                        => plan.installment_amount = RemainingOfPlan

\* 63.02 over 3 installments gives 21.01
InstallmentAmountWitness ==
    /\ SuccessfulPlan
    /\ RemainingOfPlan = 63020
    /\ fin_call.rule[1].installments = 3
    /\ fin_result.financing_plan.installment_amount = 21010

\* the installments and the initial payment of the plan, added up
PaidInFull ==
    fin_result.financing_plan.initial_payment
        + fin_result.financing_plan.installments_count
            * fin_result.financing_plan.installment_amount

\* C25: a successful plan on a price in whole cents reports whole cents only,
\* its discount and its total price add up to the price exactly, and with an
\* installment count n above zero the initial payment plus n installments is
\* within half a cent per installment of the total price.
ReconcilableSums ==
    (SuccessfulPlan /\ fin_call.product_price[1] % 10 = 0) =>
        LET plan == fin_result.financing_plan
            n == plan.installments_count
        IN  /\ plan.total_discount_amount % 10 = 0
            /\ plan.total_final_price % 10 = 0
            /\ plan.initial_payment % 10 = 0
            /\ plan.installment_amount % 10 = 0
            /\ plan.total_discount_amount + plan.total_final_price
                  = fin_call.product_price[1]
            /\ n > 0 => Abs(PaidInFull - plan.total_final_price) <= 5 * n

\* a discounted plan in installments whose payments do not add up to the
\* total price to the cent
ReconcilableSumsWitness ==
    /\ SuccessfulPlan
    /\ fin_call.product_price[1] % 10 = 0
    /\ fin_result.financing_plan.total_discount_amount > 0
    /\ fin_result.financing_plan.installments_count > 0
    /\ PaidInFull # fin_result.financing_plan.total_final_price

---------------------------------------------------------------------------
(* Properties of the battery update functions.                             *)

\* C16: after any sequence of add_or_update_battery_product,
\* update_battery_product_prices, update_battery_price_or_stock and
\* update_battery_fields_by_brand_and_model calls, every stored battery has a
\* regular price that is present and not negative
BatteryPriceInvariant ==
    \A id \in DOMAIN stored_batteries :
        /\ stored_batteries[id].price_regular # None
        /\ stored_batteries[id].price_regular[1] >= 0

\* the step is a call of update_battery_price_or_stock that returned False
PriceOrStockReturnedFalse ==
    /\ bat_result'.op = "update_price_or_stock"
    /\ ~bat_result'.raised
    /\ ~bat_result'.updated

\* C30: a call of update_battery_price_or_stock that returns False leaves the
\* price and the stock of every battery as they were, on the objects of the
\* Session and in the table; a valid new price with an invalid stock value
\* does not change the price.
NoPartialUpdateOnFailure ==
    [][PriceOrStockReturnedFalse
          => /\ session_batteries' = session_batteries
             /\ stored_batteries' = stored_batteries]_vars

---------------------------------------------------------------------------
(* Properties of the make normalizer and of the alias scan.                *)

\* C13: the normalizer gives every canonical make (every value of
\* MAKE_ALIASES) back unchanged, and applying it a second time to what it gave
\* for an alias or a canonical make changes nothing.
AliasIdempotence ==
    /\ (make_text.input \in CanonicalMakes /\ Len(make_text.values) >= 1)
          => make_text.values[1] = make_text.input
    /\ (make_text.input \in AliasKeys \cup CanonicalMakes /\ Len(make_text.values) >= 2)
          => make_text.values[2] = make_text.values[1]

AliasIdempotenceWitness ==
    /\ make_text.input \in AliasKeys \ CanonicalMakes
    /\ Len(make_text.values) = 2
    /\ make_text.values[1] \in CanonicalMakes
    /\ make_text.values[1] # make_text.input
    /\ make_text.values[2] = make_text.values[1]

\* the scan has been applied to the query
Scanned == "found" \in DOMAIN scan

\* the aliases that are substrings of the lower-cased query
ContainedAliases(query) ==
    {i \in DOMAIN MAKE_ALIASES : Contains(Lower(query), MAKE_ALIASES[i][1])}

\* C14: when the query contains aliases, the make found is the canonical make
\* of an alias in the query than which none in the query is longer; so a query
\* with 'land rover' never gives ROVER, 'land rover' alone gives LAND ROVER and
\* 'Alfa Romeo 156' gives ALFA ROMEO.
LongestAliasFirst ==
    (Scanned /\ ContainedAliases(scan.query) # {})
        => /\ \E i \in ContainedAliases(scan.query) :
                 /\ \A j \in ContainedAliases(scan.query) :
                       Len(MAKE_ALIASES[j][1]) <= Len(MAKE_ALIASES[i][1])
                 /\ scan.found = Some(MAKE_ALIASES[i][2])
           /\ Contains(Lower(scan.query), <<"l","a","n","d"," ","r","o","v","e","r">>)
                 => scan.found # Some(<<"R","O","V","E","R">>)
           /\ scan.query \in {<<"l","a","n","d"," ","r","o","v","e","r">>, <<"r","o","v","e","r"," ","l","a","n","d"," ","r","o","v","e","r">>, <<"l","a","n","d"," ","r","o","v","e","r"," ","r","o","v","e","r">>}
                 => scan.found = Some(<<"L","A","N","D"," ","R","O","V","E","R">>)
           /\ scan.query \in {<<"A","l","f","a"," ","R","o","m","e","o">>, <<"A","l","f","a"," ","R","o","m","e","o"," ","1","5","6">>, <<"a","l","f","a"," ","A","l","f","a"," ","R","o","m","e","o">>}
                 => scan.found = Some(<<"A","L","F","A"," ","R","O","M","E","O">>)

LongestAliasWitness ==
    /\ Scanned
    /\ scan.query = <<"r","o","v","e","r"," ","l","a","n","d"," ","r","o","v","e","r">>
    /\ scan.found = Some(<<"L","A","N","D"," ","R","O","V","E","R">>)

\* C23: the alias scan matches an alias only where it stands as a whole word
\* or word sequence: when the query contains an alias, the make found is the
\* make of an alias that occurs in the query between word boundaries.
AliasScanWholeWords ==
    (Scanned /\ ContainedAliases(scan.query) # {})
        => \E i \in DOMAIN MAKE_ALIASES :
              /\ scan.found = Some(MAKE_ALIASES[i][2])
              /\ WordMatch(scan.query, MAKE_ALIASES[i][1])


---------------------------------------------------------------------------
(* Properties of _get_all_makes_cached.                                    *)

\* the step ends a call of caller c that no other call overlapped, on a
\* cache that a refresh had written before
CallEndsAlone(c) ==
    /\ Active(c)
    /\ callers'[c].pc = "done"
    /\ callers[c].alone
    /\ callers[c].before.data # None

\* C26: after a refresh at time t (the timestamp of the cache), a call at a
\* time before t + 3600 returns the cached list without querying the
\* repository, whatever list the refresh produced, and a call at or after
\* t + 3600 queries the repository again and, the query done, replaces both
\* the list and the timestamp.
MakeCacheExpiry ==
    [][\A c \in Callers :
          CallEndsAlone(c) =>
             LET t == callers[c].before.timestamp
                 call == callers'[c]
             IN  /\ call.current_time < t + CACHE_DURATION_SECONDS
                       => /\ ~call.queried
                          /\ call.returned = callers[c].before.data
                          /\ makes_cache' = callers[c].before
                 /\ call.current_time >= t + CACHE_DURATION_SECONDS
                       => /\ call.queried
                          /\ call.stored
                                => makes_cache' = [data |-> call.returned,
                                                   timestamp |-> call.current_time]]_vars

\* no caller inside the function waits: its next statement can be taken
NoCallerWaits == \A c \in Callers : Active(c) => ENABLED CallerStep(c)

\* every caller has made one call, went past the cache check to the
\* repository, and has returned
RaceOver ==
    \A c \in Callers :
        /\ callers[c].pc = "done"
        /\ callers[c].calls = 1
        /\ callers[c].queried

\* C27: callers that race past an expired cache take no lock and never wait
\* for one another, every caller returns a list of makes, and when all have
\* returned the cache holds the list one of the refreshes wrote (it is as it
\* was when no refresh wrote one).
ConcurrentRefreshNonBlocking ==
    /\ NoCallerWaits
    /\ \A c \in Callers :
          callers[c].pc = "done" =>
              /\ callers[c].returned # None
              /\ callers[c].queried
                    => callers[c].returned \in {Some(callers[c].makes), Some(<<>>)}
    /\ RaceOver =>
          LET writers == {c \in Callers : callers[c].stored}
          IN  IF writers = {} THEN makes_cache.data = None
              ELSE \E c \in writers : makes_cache.data = Some(callers[c].makes)

\* two overlapping refreshes wrote different lists, and the cache holds the
\* list of one under the timestamp of the other
ConcurrentRefreshWitness ==
    /\ RaceOver
    /\ \A c \in Callers : callers[c].stored /\ ~callers[c].alone
    /\ callers["c1"].makes # callers["c2"].makes
    /\ makes_cache.data = Some(callers["c1"].makes)
    /\ makes_cache.timestamp = callers["c2"].current_time
    /\ callers["c1"].current_time # callers["c2"].current_time

\* C29: in every reachable state the timestamp of the cache is not later
\* than the time at which the refresh that wrote the cached list began (nor,
\* then, than the time that refresh read the repository).
CacheFreshness ==
    makes_cache.data # None =>
        /\ makes_cache.timestamp <= cache_origin.started
        /\ makes_cache.timestamp <= cache_origin.read_at

=========================================================================
